---- MODULE Spec2Model ----
(***************************************************************************)
(* A state-machine model of the NES emulator core: the 6502 CPU            *)
(* interpreter, the PPU register file and dot clock, the CPU bus, the      *)
(* NROM and MMC3 mappers and the frame driver loop.                        *)
(*                                                                         *)
(* The machine state is held in records that keep the field names of the   *)
(* classes (cpu.pc, ppu.scanline, mapper.irqCounter ...).  Handlers are    *)
(* pure operators from a machine record m = [cpu, ppu, ram, mapper] to the *)
(* machine after the call; a read that has side effects returns            *)
(* [val, m].  Zero-initialised byte arrays (RAM, OAM, VRAM, palette,       *)
(* PRG-RAM) are stored as the finite map of their non-zero cells.          *)
(*                                                                         *)
(* Not modelled: the pixel data path of the PPU (frame buffer, background  *)
(* shifters and latches, sprite pattern buffers).  The two status bits it  *)
(* can set (sprite overflow, sprite-0 hit) and the number of sprites found *)
(* on a scanline depend on OAM/CHR/nametable contents and are inputs of    *)
(* the PPU step.                                                           *)
(***************************************************************************)
EXTENDS Integers, Sequences, FiniteSets, TLC

---------------------------------------------------------------------------
(* Bit arithmetic on non-negative integers.                                *)

RECURSIVE BitAnd(_, _)
BitAnd(a, b) ==
    IF a = 0 \/ b = 0 THEN 0
    ELSE (a % 2) * (b % 2) + 2 * BitAnd(a \div 2, b \div 2)

BitOr(a, b) == a + b - BitAnd(a, b)

BitXor(a, b) == a + b - 2 * BitAnd(a, b)

\* x & ~mask
BitClear(x, mask) == x - BitAnd(x, mask)

\* (x & f) !== 0
Test(x, f) == BitAnd(x, f) # 0

ShiftRight(x, n) == x \div (2 ^ n)

---------------------------------------------------------------------------
(* Zero-initialised byte arrays as maps of their non-zero cells.           *)

EmptyMap == [j \in {} |-> 0]

MapGet(f, i) == IF i \in DOMAIN f THEN f[i] ELSE 0

MapPut(f, i, val) ==
    IF val = 0
    THEN [j \in (DOMAIN f) \ {i} |-> f[j]]
    ELSE [j \in (DOMAIN f) \cup {i} |-> IF j = i THEN val ELSE f[j]]

---------------------------------------------------------------------------
(* types.ts                                                                *)

PPU_CYCLES_PER_CPU == 3

\* CYCLES_PER_FRAME is 29780.5; the loop test c < 29780.5 on an integer c
\* is 2 * c < 59561.
CYCLES_PER_FRAME_X2 == 59561

Carry == \h01
Zero == \h02
InterruptDisable == \h04
Decimal == \h08
Break == \h10
Unused == \h20
Overflow == \h40
Negative == \h80

Horizontal == 0
Vertical == 1
SingleScreenLower == 2
SingleScreenUpper == 3
FourScreen == 4

---------------------------------------------------------------------------
(* The cartridge: a 32 KiB PRG-ROM image per program, 8 KiB of CHR.        *)

PrgRomLength == 32768

ChrRomLength == 8192

\* A program is [code, nmi, irq]: code is loaded at 0x8000 (the reset
\* vector), nmi and irq are the handler addresses stored in the vectors.
\* The programs themselves are defined with the specifications below.
VectorByte(image, off) ==
    CASE off = \h7FFA -> image.nmi % 256
      [] off = \h7FFB -> image.nmi \div 256
      [] off = \h7FFC -> \h00
      [] off = \h7FFD -> \h80
      [] off = \h7FFE -> image.irq % 256
      [] off = \h7FFF -> image.irq \div 256
      [] OTHER -> 0

\* An image with a field fill is the PRG-ROM the mapper tests build with
\* fillPrgRom: every bank of fill bytes holds its bank number.
PrgRomByte(image, off) ==
    IF "fill" \in DOMAIN image THEN off \div image.fill
    ELSE IF off < Len(image.code) THEN image.code[off + 1]
    ELSE VectorByte(image, off)

---------------------------------------------------------------------------
(* mapper0.ts: NROM                                                        *)

Mapper0CpuRead(mp, address) ==
    IF address >= \h8000
    THEN PrgRomByte(mp.image, BitAnd(address - \h8000, PrgRomLength - 1))
    ELSE IF address >= \h6000 THEN MapGet(mp.prgRam, address - \h6000)
    ELSE 0

Mapper0CpuWrite(mp, address, value) ==
    IF address >= \h6000 /\ address < \h8000
    THEN [mp EXCEPT !.prgRam = MapPut(@, address - \h6000, value)]
    ELSE mp

Mapper0PpuRead(mp, address) ==
    IF address < \h2000 THEN MapGet(mp.chrRom, address) ELSE 0

Mapper0PpuWrite(mp, address, value) ==
    IF address < \h2000 /\ mp.chrIsRam
    THEN [mp EXCEPT !.chrRom = MapPut(@, address, value)]
    ELSE mp

---------------------------------------------------------------------------
(* mapper1.ts: MMC1.  The mapper is the record of the closure variables of *)
(* createMapper1, the cached offsets and the mirroring mode among them;    *)
(* prgBankCount16 and chrBankCount4 are the bank counts of the ROM.  The   *)
(* PRG-ROM is filled as the tests fill it, each 16 KiB bank with its       *)
(* number.                                                                 *)

\* fillPrgRom: rom[bank * 0x4000 + i] = bank
FilledPrgRom(off) == off \div \h4000

Mapper1UpdatePrgOffsets(mp) ==
    LET prgMode == ShiftRight(mp.regControl, 2) % 4
        bank == mp.regPrgBank % 16
        bank32 == ShiftRight(bank, 1) % mp.prgBankCount16
    IN  CASE prgMode \in {0, 1} ->
               [mp EXCEPT !.prgOffset0 = bank32 * \h4000,
                          !.prgOffset1 = ((bank32 + 1) % mp.prgBankCount16) * \h4000]
          [] prgMode = 2 ->
               [mp EXCEPT !.prgOffset0 = 0,
                          !.prgOffset1 = (bank % mp.prgBankCount16) * \h4000]
          [] OTHER ->
               [mp EXCEPT !.prgOffset0 = (bank % mp.prgBankCount16) * \h4000,
                          !.prgOffset1 = (mp.prgBankCount16 - 1) * \h4000]

\* chrBankCount4 is 0 or at least 2 in the cartridges modelled
Mapper1UpdateChrOffsets(mp) ==
    LET chrMode == ShiftRight(mp.regControl, 4) % 2
        bank8 == ShiftRight(mp.regChrBank0, 1) % ShiftRight(mp.chrBankCount4, 1)
    IN  IF mp.chrBankCount4 = 0 THEN mp
        ELSE IF chrMode = 0
        THEN [mp EXCEPT !.chrOffset0 = bank8 * \h2000,
                        !.chrOffset1 = bank8 * \h2000 + \h1000]
        ELSE [mp EXCEPT !.chrOffset0 = (mp.regChrBank0 % mp.chrBankCount4) * \h1000,
                        !.chrOffset1 = (mp.regChrBank1 % mp.chrBankCount4) * \h1000]

Mapper1UpdateMirroring(mp) ==
    [mp EXCEPT !.mirrorMode =
        CASE mp.regControl % 4 = 0 -> SingleScreenLower
          [] mp.regControl % 4 = 1 -> SingleScreenUpper
          [] mp.regControl % 4 = 2 -> Vertical
          [] OTHER -> Horizontal]

\* Variant of Mapper1WriteRegister: a control write leaves the PRG offsets
\* as they are
Mapper1WriteRegisterStalePrg(mp, address, value) ==
    LET reg == ShiftRight(address, 13) % 4
    IN  CASE reg = 0 ->
               Mapper1UpdateChrOffsets(
                   Mapper1UpdateMirroring([mp EXCEPT !.regControl = value]))
          [] reg = 1 -> Mapper1UpdateChrOffsets([mp EXCEPT !.regChrBank0 = value])
          [] reg = 2 -> Mapper1UpdateChrOffsets([mp EXCEPT !.regChrBank1 = value])
          [] OTHER -> Mapper1UpdatePrgOffsets([mp EXCEPT !.regPrgBank = value])

\* Variant of Mapper1WriteRegister: the register is selected by address
\* bits 12 and 13
Mapper1WriteRegisterLowSelect(mp, address, value) ==
    LET reg == ShiftRight(address, 12) % 4
    IN  CASE reg = 0 ->
               Mapper1UpdateChrOffsets(Mapper1UpdatePrgOffsets(
                   Mapper1UpdateMirroring([mp EXCEPT !.regControl = value])))
          [] reg = 1 -> Mapper1UpdateChrOffsets([mp EXCEPT !.regChrBank0 = value])
          [] reg = 2 -> Mapper1UpdateChrOffsets([mp EXCEPT !.regChrBank1 = value])
          [] OTHER -> Mapper1UpdatePrgOffsets([mp EXCEPT !.regPrgBank = value])

Mapper1WriteRegister(mp, address, value) ==
    LET reg == ShiftRight(address, 13) % 4
    IN  CASE reg = 0 ->
               Mapper1UpdateChrOffsets(Mapper1UpdatePrgOffsets(
                   Mapper1UpdateMirroring([mp EXCEPT !.regControl = value])))
          [] reg = 1 -> Mapper1UpdateChrOffsets([mp EXCEPT !.regChrBank0 = value])
          [] reg = 2 -> Mapper1UpdateChrOffsets([mp EXCEPT !.regChrBank1 = value])
          [] OTHER -> Mapper1UpdatePrgOffsets([mp EXCEPT !.regPrgBank = value])

Mapper1CpuRead(mp, address) ==
    IF address >= \hC000
    THEN FilledPrgRom(mp.prgOffset1 + (address % \h4000))
    ELSE IF address >= \h8000
    THEN FilledPrgRom(mp.prgOffset0 + (address % \h4000))
    ELSE IF address >= \h6000 THEN MapGet(mp.prgRam, address - \h6000)
    ELSE 0

\* The serial port: the bit of a write with bit 7 clear is shifted in
Mapper1ShiftIn(mp, address, value) ==
    LET Commit(shifted) ==
            IF shifted.shiftCount = 5
            THEN [Mapper1WriteRegister(shifted, address, shifted.shiftRegister)
                     EXCEPT !.shiftRegister = 0, !.shiftCount = 0]
            ELSE shifted
    IN  Commit([mp EXCEPT !.shiftRegister = BitOr(@, (value % 2) * 2 ^ mp.shiftCount),
                          !.shiftCount = @ + 1])

\* Variant of Mapper1CpuWrite: a write with bit 7 set keeps the bits
\* shifted in so far
Mapper1CpuWriteKeepShift(mp, address, value) ==
    IF address >= \h8000
    THEN IF BitAnd(value, \h80) # 0
         THEN Mapper1UpdatePrgOffsets([mp EXCEPT !.regControl = BitOr(@, \h0C)])
         ELSE Mapper1ShiftIn(mp, address, value)
    ELSE IF address >= \h6000
    THEN [mp EXCEPT !.prgRam = MapPut(@, address - \h6000, value)]
    ELSE mp

Mapper1CpuWrite(mp, address, value) ==
    IF address >= \h8000
    THEN IF BitAnd(value, \h80) # 0
         THEN Mapper1UpdatePrgOffsets([mp EXCEPT !.shiftRegister = 0,
                                                 !.shiftCount = 0,
                                                 !.regControl = BitOr(@, \h0C)])
         ELSE Mapper1ShiftIn(mp, address, value)
    ELSE IF address >= \h6000
    THEN [mp EXCEPT !.prgRam = MapPut(@, address - \h6000, value)]
    ELSE mp

\* createMapper1: the closure variables as declared, then the three
\* updates of the initialisation
NewMapper1(prgBankCount16, chrBankCount4, mirrorMode) ==
    Mapper1UpdateMirroring(Mapper1UpdateChrOffsets(Mapper1UpdatePrgOffsets(
        [kind |-> 1, prgBankCount16 |-> prgBankCount16,
         chrBankCount4 |-> chrBankCount4, prgRam |-> EmptyMap,
         shiftRegister |-> 0, shiftCount |-> 0,
         regControl |-> \h0C, regChrBank0 |-> 0, regChrBank1 |-> 0,
         regPrgBank |-> 0,
         prgOffset0 |-> 0, prgOffset1 |-> (prgBankCount16 - 1) * \h4000,
         chrOffset0 |-> 0,
         chrOffset1 |-> IF chrBankCount4 > 1 THEN \h1000 ELSE 0,
         mirrorMode |-> mirrorMode])))

---------------------------------------------------------------------------
(* mapper4.ts: MMC3.  bankRegisters[n + 1] is Rn.  The offset tables the   *)
(* code caches are recomputed from bankSelect and the bank registers on    *)
(* every write that changes them, so they are functions of those.          *)

PrgBankCount == PrgRomLength \div \h2000

ChrBankCount == ChrRomLength \div \h400

R(mp, n) == mp.bankRegisters[n + 1]

\* Variant of PrgOffsets: bank-select bit 6 is not consulted
PrgOffsetsUnswapped(mp, window) ==
    CASE window = 0 -> (R(mp, 6) % PrgBankCount) * \h2000
      [] window = 1 -> (R(mp, 7) % PrgBankCount) * \h2000
      [] window = 2 -> (PrgBankCount - 2) * \h2000
      [] OTHER -> (PrgBankCount - 1) * \h2000

PrgOffsets(mp, window) ==
    LET prgMode == ShiftRight(mp.bankSelect, 6) % 2
        secondToLast == (PrgBankCount - 2) * \h2000
        last == (PrgBankCount - 1) * \h2000
        r6 == (R(mp, 6) % PrgBankCount) * \h2000
        r7 == (R(mp, 7) % PrgBankCount) * \h2000
    IN  IF prgMode = 0
        THEN CASE window = 0 -> r6
               [] window = 1 -> r7
               [] window = 2 -> secondToLast
               [] OTHER -> last
        ELSE CASE window = 0 -> secondToLast
               [] window = 1 -> r7
               [] window = 2 -> r6
               [] OTHER -> last

ChrOffsets(mp, slot) ==
    LET chrInversion == ShiftRight(mp.bankSelect, 7) % 2
        even(n) == (BitClear(R(mp, n), 1) % ChrBankCount) * \h400
        odd(n) == (BitOr(R(mp, n), 1) % ChrBankCount) * \h400
        one(n) == (R(mp, n) % ChrBankCount) * \h400
        s == IF chrInversion = 0 THEN slot ELSE (slot + 4) % 8
    IN  CASE s = 0 -> even(0)
          [] s = 1 -> odd(0)
          [] s = 2 -> even(1)
          [] s = 3 -> odd(1)
          [] s = 4 -> one(2)
          [] s = 5 -> one(3)
          [] s = 6 -> one(4)
          [] OTHER -> one(5)

\* Variant of Mapper4CpuRead: PRG-RAM is read whatever prgRamEnable is
Mapper4CpuReadUnprotected(mp, address) ==
    IF address >= \h8000
    THEN PrgRomByte(mp.image,
                    PrgOffsets(mp, ShiftRight(address - \h8000, 13))
                        + (address % \h2000))
    ELSE IF address >= \h6000 THEN MapGet(mp.prgRam, address - \h6000)
    ELSE 0

Mapper4CpuRead(mp, address) ==
    IF address >= \h8000
    THEN PrgRomByte(mp.image,
                    PrgOffsets(mp, ShiftRight(address - \h8000, 13))
                        + (address % \h2000))
    ELSE IF address >= \h6000
    THEN IF mp.prgRamEnable THEN MapGet(mp.prgRam, address - \h6000) ELSE 0
    ELSE 0

Mapper4CpuWrite(mp, address, value) ==
    LET isEven == address % 2 = 0
    IN  IF address >= \h8000
        THEN IF address < \hA000
             THEN IF isEven
                  THEN [mp EXCEPT !.bankSelect = value]
                  ELSE [mp EXCEPT !.bankRegisters[(mp.bankSelect % 8) + 1] = value % 256]
             ELSE IF address < \hC000
             THEN IF isEven
                  THEN IF mp.romMirrorMode # FourScreen
                       THEN [mp EXCEPT !.mirrorMode =
                                IF value % 2 = 1 THEN Horizontal ELSE Vertical]
                       ELSE mp
                  ELSE [mp EXCEPT !.prgRamEnable = Test(value, \h80)]
             ELSE IF address < \hE000
             THEN IF isEven
                  THEN [mp EXCEPT !.irqLatch = value]
                  ELSE [mp EXCEPT !.irqCounter = 0, !.irqReloadPending = TRUE]
             ELSE IF isEven
                  THEN [mp EXCEPT !.irqEnabled = FALSE, !.irqActive = FALSE]
                  ELSE [mp EXCEPT !.irqEnabled = TRUE]
        ELSE IF address >= \h6000
        THEN IF mp.prgRamEnable
             THEN [mp EXCEPT !.prgRam = MapPut(@, address - \h6000, value)]
             ELSE mp
        ELSE mp

Mapper4PpuRead(mp, address) ==
    IF address < \h2000
    THEN MapGet(mp.chrRom, ChrOffsets(mp, ShiftRight(address, 10)) + (address % \h400))
    ELSE 0

Mapper4PpuWrite(mp, address, value) ==
    IF address < \h2000 /\ mp.chrIsRam
    THEN [mp EXCEPT !.chrRom =
            MapPut(@, ChrOffsets(mp, ShiftRight(address, 10)) + (address % \h400), value)]
    ELSE mp

\* Variant of ReloadOrDecrement: the tick that reloads also counts
ReloadThenDecrement(mp) ==
    IF mp.irqCounter = 0 \/ mp.irqReloadPending
    THEN [mp EXCEPT !.irqCounter = IF mp.irqLatch = 0 THEN 0 ELSE mp.irqLatch - 1,
                    !.irqReloadPending = FALSE]
    ELSE [mp EXCEPT !.irqCounter = @ - 1]

ReloadOrDecrement(mp) ==
    IF mp.irqCounter = 0 \/ mp.irqReloadPending
    THEN [mp EXCEPT !.irqCounter = mp.irqLatch, !.irqReloadPending = FALSE]
    ELSE [mp EXCEPT !.irqCounter = @ - 1]

\* Variant of Mapper4ScanlineTick: the IRQ enable flag is not consulted
Mapper4ScanlineTickUnmasked(mp) ==
    LET Counted(counted) ==
            IF counted.irqCounter = 0
            THEN [counted EXCEPT !.irqActive = TRUE]
            ELSE counted
    IN  Counted(ReloadOrDecrement(mp))

\* Variant of Mapper4ScanlineTick: a reload to 0 does not assert the IRQ,
\* only a decrement to 0 does
Mapper4ScanlineTickOnDecrement(mp) ==
    LET Counted(counted) ==
            IF counted.irqCounter = 0 /\ counted.irqEnabled
               /\ ~(mp.irqCounter = 0 \/ mp.irqReloadPending)
            THEN [counted EXCEPT !.irqActive = TRUE]
            ELSE counted
    IN  Counted(ReloadOrDecrement(mp))

Mapper4ScanlineTick(mp) ==
    LET counted == ReloadOrDecrement(mp)
    IN  IF counted.irqCounter = 0 /\ counted.irqEnabled
        THEN [counted EXCEPT !.irqActive = TRUE]
        ELSE counted

Mapper4IrqPending(mp) == mp.irqActive

---------------------------------------------------------------------------
(* mapper.ts: the Mapper interface, dispatched on the cartridge's mapper   *)
(* number (mp.kind).                                                       *)

MapperCpuRead(mp, address) ==
    IF mp.kind = 4 THEN Mapper4CpuRead(mp, address) ELSE Mapper0CpuRead(mp, address)

MapperCpuWrite(mp, address, value) ==
    IF mp.kind = 4
    THEN Mapper4CpuWrite(mp, address, value)
    ELSE Mapper0CpuWrite(mp, address, value)

MapperPpuRead(mp, address) ==
    IF mp.kind = 4 THEN Mapper4PpuRead(mp, address) ELSE Mapper0PpuRead(mp, address)

MapperPpuWrite(mp, address, value) ==
    IF mp.kind = 4
    THEN Mapper4PpuWrite(mp, address, value)
    ELSE Mapper0PpuWrite(mp, address, value)

\* scanlineTick?.() : only the MMC3 object has the method
MapperScanlineTick(mp) ==
    IF mp.kind = 4 THEN Mapper4ScanlineTick(mp) ELSE mp

NewMapper(kind, image, mirrorMode, chrIsRam) ==
    [kind |-> kind, image |-> image, romMirrorMode |-> mirrorMode,
     mirrorMode |-> mirrorMode, chrIsRam |-> chrIsRam,
     prgRam |-> EmptyMap, chrRom |-> EmptyMap,
     bankSelect |-> 0, bankRegisters |-> <<0, 0, 0, 0, 0, 0, 0, 0>>,
     prgRamEnable |-> TRUE,
     irqLatch |-> 0, irqCounter |-> 0, irqReloadPending |-> FALSE,
     irqEnabled |-> FALSE, irqActive |-> FALSE]

\* createMapper(romInfo): [threw, mapper, message].  The switch has the
\* cases 0 and 4; every other number takes the default branch.
createMapper(romInfo) ==
    CASE romInfo.mapper = 0 ->
           [threw |-> FALSE, message |-> "",
            mapper |-> NewMapper(0, romInfo.image, romInfo.mirrorMode, FALSE)]
      [] romInfo.mapper = 4 ->
           [threw |-> FALSE, message |-> "",
            mapper |-> NewMapper(4, romInfo.image, romInfo.mirrorMode, FALSE)]
      [] OTHER ->
           [threw |-> TRUE, message |-> "Unsupported mapper",
            mapper |-> [kind |-> -1]]

---------------------------------------------------------------------------
(* ppu.ts: memory behind the PPU bus                                       *)

NewPPU ==
    [vram |-> EmptyMap, paletteRam |-> EmptyMap, oam |-> EmptyMap,
     frameComplete |-> FALSE, nmiPending |-> FALSE,
     scanline |-> 0, cycle |-> 0, oddFrame |-> FALSE,
     ppuCtrl |-> 0, ppuMask |-> 0, ppuStatus |-> 0, oamAddr |-> 0,
     v |-> 0, t |-> 0, x |-> 0, w |-> FALSE,
     dataBuffer |-> 0, latch |-> 0,
     spriteCount |-> 0, sprite0HitPossible |-> FALSE, sprite0Rendering |-> FALSE,
     lastA12 |-> 0]

MIRROR_LOOKUP(mirrorMode) ==
    CASE mirrorMode = Horizontal -> <<0, 0, 1, 1>>
      [] mirrorMode = Vertical -> <<0, 1, 0, 1>>
      [] mirrorMode = SingleScreenLower -> <<0, 0, 0, 0>>
      [] mirrorMode = SingleScreenUpper -> <<1, 1, 1, 1>>
      [] OTHER -> <<0, 1, 2, 3>>

VramLength == 2048

mirrorAddress(m, address) ==
    LET addr == address % \h1000
        table == ShiftRight(addr, 10) % 4
        offset == addr % \h400
    IN  MIRROR_LOOKUP(m.mapper.mirrorMode)[table + 1] * \h400 + offset

\* Variant of paletteIndex: the 32 entries are all distinct
paletteIndexFlat(address) == address % \h20

paletteIndex(address) ==
    LET index == address % \h20
    IN  IF index >= 16 /\ index % 4 = 0 THEN index - 16 ELSE index

\* undefined, the value of a typed-array read past the end: no byte
Undefined == 0 - 1

\* A read of the 2 KiB typed array past its end yields undefined.
VramRead(m, index) ==
    IF index < VramLength THEN MapGet(m.ppu.vram, index) ELSE Undefined

\* A store past the end of the typed array is dropped.
VramWrite(m, index, value) ==
    IF index < VramLength
    THEN [m EXCEPT !.ppu.vram = MapPut(@, index, value)]
    ELSE m

\* The A12 watch in ppuReadInternal: a pattern-table read whose address
\* bit 12 is a12 ticks the mapper on a 0 -> 1 change and records the bit.
A12Watch(m, a12) ==
    LET ticked == IF a12 = 1 /\ m.ppu.lastA12 = 0
                  THEN [m EXCEPT !.mapper = MapperScanlineTick(@)]
                  ELSE m
    IN  [ticked EXCEPT !.ppu.lastA12 = a12]

ppuReadInternal(m, address) ==
    LET addr == address % \h4000
    IN  IF addr < \h2000
        THEN LET Pattern(watched) ==
                     [val |-> MapperPpuRead(watched.mapper, addr), m |-> watched]
             IN  Pattern(A12Watch(m, ShiftRight(addr, 12) % 2))
        ELSE IF addr < \h3F00
        THEN [val |-> VramRead(m, mirrorAddress(m, addr)), m |-> m]
        ELSE [val |-> MapGet(m.ppu.paletteRam, paletteIndex(addr)), m |-> m]

ppuWriteInternal(m, address, value) ==
    LET addr == address % \h4000
    IN  IF addr < \h2000
        THEN [m EXCEPT !.mapper = MapperPpuWrite(@, addr, value)]
        ELSE IF addr < \h3F00
        THEN VramWrite(m, mirrorAddress(m, addr), value)
        ELSE [m EXCEPT !.ppu.paletteRam = MapPut(@, paletteIndex(addr), value % 256)]

---------------------------------------------------------------------------
(* ppu.ts: the register file                                               *)

\* Variant of writeCtrl: the request follows the level of bit 7, not its edge
writeCtrlLevel(m, value) ==
    LET raise == Test(value, \h80) /\ Test(m.ppu.ppuStatus, \h80)
    IN  [m EXCEPT !.ppu.ppuCtrl = value,
                  !.ppu.t = BitOr(BitAnd(@, \hF3FF), (value % 4) * \h400),
                  !.ppu.nmiPending = IF raise THEN TRUE ELSE @]

writeCtrl(m, value) ==
    LET prevNmi == BitAnd(m.ppu.ppuCtrl, \h80)
        raise == prevNmi = 0 /\ Test(value, \h80) /\ Test(m.ppu.ppuStatus, \h80)
    IN  [m EXCEPT !.ppu.ppuCtrl = value,
                  !.ppu.t = BitOr(BitAnd(@, \hF3FF), (value % 4) * \h400),
                  !.ppu.nmiPending = IF raise THEN TRUE ELSE @]

writeMask(m, value) == [m EXCEPT !.ppu.ppuMask = value]

\* Variant of readStatus: the write toggle is left as it is
readStatusKeepToggle(m) ==
    [val |-> BitOr(BitAnd(m.ppu.ppuStatus, \hE0), BitAnd(m.ppu.latch, \h1F)),
     m |-> [m EXCEPT !.ppu.ppuStatus = BitClear(@, \h80)]]

readStatus(m) ==
    [val |-> BitOr(BitAnd(m.ppu.ppuStatus, \hE0), BitAnd(m.ppu.latch, \h1F)),
     m |-> [m EXCEPT !.ppu.ppuStatus = BitClear(@, \h80), !.ppu.w = FALSE]]

writeOamAddr(m, value) == [m EXCEPT !.ppu.oamAddr = value]

readOamData(m) == [val |-> MapGet(m.ppu.oam, m.ppu.oamAddr), m |-> m]

writeOamData(m, value) ==
    [m EXCEPT !.ppu.oam = MapPut(@, m.ppu.oamAddr, value % 256),
              !.ppu.oamAddr = (@ + 1) % 256]

\* Variant of writeScroll: the scroll register keeps a toggle of its own,
\* so the shared one is left alone
writeScrollOwnToggle(m, value) ==
    [m EXCEPT !.ppu.t = BitOr(BitAnd(@, \hFFE0), ShiftRight(value, 3)),
              !.ppu.x = value % 8]

writeScroll(m, value) ==
    IF ~m.ppu.w
    THEN [m EXCEPT !.ppu.t = BitOr(BitAnd(@, \hFFE0), ShiftRight(value, 3)),
                   !.ppu.x = value % 8,
                   !.ppu.w = TRUE]
    ELSE [m EXCEPT !.ppu.t = BitOr(BitOr(BitAnd(@, \h8C1F), (value % 8) * \h1000),
                                   BitAnd(value, \hF8) * 4),
                   !.ppu.w = FALSE]

writeAddr(m, value) ==
    IF ~m.ppu.w
    THEN [m EXCEPT !.ppu.t = BitOr(BitAnd(@, \h00FF), (value % \h40) * \h100),
                   !.ppu.w = TRUE]
    ELSE LET t2 == BitOr(BitAnd(m.ppu.t, \hFF00), value)
         IN  [m EXCEPT !.ppu.t = t2, !.ppu.v = t2, !.ppu.w = FALSE]

VramIncrement(m) == IF Test(m.ppu.ppuCtrl, \h04) THEN 32 ELSE 1

\* Variant of readData: every read returns the byte at v at once
readDataUnbuffered(m) ==
    LET Direct(first) ==
            [val |-> first.val,
             m |-> [first.m EXCEPT !.ppu.dataBuffer = first.val,
                                   !.ppu.v = (@ + VramIncrement(m)) % \h8000]]
    IN  Direct(ppuReadInternal(m, m.ppu.v))

readData(m) ==
    LET buffered == (m.ppu.v % \h4000) < \h3F00
        \* palette read: the buffer is filled from the nametable underneath
        Refill(data, under) ==
            [val |-> data, m |-> [under.m EXCEPT !.ppu.dataBuffer = under.val]]
        Buffer(first) ==
            IF buffered
            THEN [val |-> m.ppu.dataBuffer,
                  m |-> [first.m EXCEPT !.ppu.dataBuffer = first.val]]
            ELSE Refill(first.val, ppuReadInternal(first.m, m.ppu.v - \h1000))
        Increment(r) ==
            [val |-> r.val,
             m |-> [r.m EXCEPT !.ppu.v = (@ + VramIncrement(m)) % \h8000]]
    IN  Increment(Buffer(ppuReadInternal(m, m.ppu.v)))

writeData(m, value) ==
    [ppuWriteInternal(m, m.ppu.v, value)
        EXCEPT !.ppu.v = (@ + VramIncrement(m)) % \h8000]

readRegister(m, register) ==
    CASE register = \h2002 -> readStatus(m)
      [] register = \h2004 -> readOamData(m)
      [] register = \h2007 -> readData(m)
      [] register \in {\h2000, \h2001, \h2003, \h2005, \h2006} ->
            [val |-> m.ppu.latch, m |-> m]
      [] OTHER -> [val |-> 0, m |-> m]

writeRegister(m, register, value) ==
    LET m1 == [m EXCEPT !.ppu.latch = value]
    IN  CASE register = \h2000 -> writeCtrl(m1, value)
          [] register = \h2001 -> writeMask(m1, value)
          [] register = \h2003 -> writeOamAddr(m1, value)
          [] register = \h2004 -> writeOamData(m1, value)
          [] register = \h2005 -> writeScroll(m1, value)
          [] register = \h2006 -> writeAddr(m1, value)
          [] register = \h2007 -> writeData(m1, value)
          [] OTHER -> m1

\* Variant of oamDmaWrite: the copy starts at OAM[0] whatever OAMADDR is
oamDmaWriteFromZero(m, data) ==
    [m EXCEPT !.ppu.oam = [j \in {k \in 0..255 : data[k] # 0} |-> data[j]]]

\* data is the 256-byte block as a function on 0..255
oamDmaWrite(m, data) ==
    LET cell(j) == data[(j + 256 - m.ppu.oamAddr) % 256]
    IN  [m EXCEPT !.ppu.oam = [j \in {k \in 0..255 : cell(k) # 0} |-> cell(j)]]

---------------------------------------------------------------------------
(* ppu.ts: the dot clock.  An input of a step is what the step reads from  *)
(* the unmodelled picture data:                                            *)
(*   count, sprite0, overflow  what evaluateSprites finds in OAM,          *)
(*   tableBits                 bit 0 of the tile index of each 8x16 sprite,*)
(*   hit                       sprite 0 and the background are both opaque *)
(*                             at this pixel.                              *)

NoInput ==
    [count |-> 0, sprite0 |-> FALSE, overflow |-> FALSE,
     tableBits |-> <<>>, hit |-> FALSE]

incrementX(m) ==
    IF m.ppu.v % 32 = 31
    THEN [m EXCEPT !.ppu.v = BitXor(BitClear(@, \h001F), \h0400)]
    ELSE [m EXCEPT !.ppu.v = @ + 1]

\* Variant of incrementY: fine Y is incremented without the wrap
incrementYNoWrap(m) == [m EXCEPT !.ppu.v = @ + \h1000]

incrementY(m) ==
    IF BitAnd(m.ppu.v, \h7000) # \h7000
    THEN [m EXCEPT !.ppu.v = @ + \h1000]
    ELSE LET v1 == BitClear(m.ppu.v, \h7000)
             coarseY == ShiftRight(BitAnd(v1, \h03E0), 5)
             v2 == IF coarseY = 29 THEN BitXor(v1, \h0800) ELSE v1
             y2 == IF coarseY = 29 \/ coarseY = 31 THEN 0 ELSE coarseY + 1
         IN  [m EXCEPT !.ppu.v = BitOr(BitClear(v2, \h03E0), y2 * 32)]

\* The five-step background fetch of one dot.  The nametable and attribute
\* reads (steps 0 and 2) change no modelled state; the two pattern reads go
\* to bgPatternTable + tile * 16 + fineY (+ 8), whose bit 12 is PPUCTRL bit 4.
BackgroundFetch(m) ==
    LET phase == (m.ppu.cycle - 1) % 8
        bgPatternTable == IF Test(m.ppu.ppuCtrl, \h10) THEN 1 ELSE 0
    IN  CASE phase \in {4, 6} -> A12Watch(m, bgPatternTable)
          [] phase = 7 -> incrementX(m)
          [] OTHER -> m

MaxSprites == 8

evaluateSprites(m, inp) ==
    [m EXCEPT !.ppu.spriteCount = inp.count,
              !.ppu.sprite0HitPossible = inp.sprite0,
              !.ppu.sprite0Rendering = FALSE,
              !.ppu.ppuStatus = IF inp.count >= MaxSprites /\ inp.overflow
                                THEN BitOr(@, \h20) ELSE @]

\* The two pattern reads of each selected sprite, in slot order; bits[i] is
\* bit 12 of the pattern address of slot i.
RECURSIVE SpriteFetch(_, _, _)
SpriteFetch(m, bits, i) ==
    IF i > Len(bits) THEN m
    ELSE SpriteFetch(A12Watch(A12Watch(m, bits[i]), bits[i]), bits, i + 1)

loadSpritesForScanline(m, inp) ==
    LET n == m.ppu.spriteCount
        tall == Test(m.ppu.ppuCtrl, \h20)
        spritePatternTable == IF Test(m.ppu.ppuCtrl, \h08) THEN 1 ELSE 0
        bits == IF tall THEN inp.tableBits ELSE [i \in 1..n |-> spritePatternTable]
        m1 == IF n > 0 /\ m.ppu.sprite0HitPossible
              THEN [m EXCEPT !.ppu.sprite0Rendering = TRUE]
              ELSE m
    IN  SpriteFetch(m1, bits, 1)

\* renderPixel can set the sprite-0 hit bit at this dot for some picture data
HitPossible(m) ==
    LET p == m.ppu
        pixelX == p.cycle - 1
    IN  /\ p.scanline < 240 /\ p.cycle >= 1 /\ p.cycle <= 256
        /\ Test(p.ppuMask, \h08) /\ (Test(p.ppuMask, \h02) \/ pixelX >= 8)
        /\ Test(p.ppuMask, \h10) /\ (Test(p.ppuMask, \h04) \/ pixelX >= 8)
        /\ p.spriteCount > 0 /\ p.sprite0Rendering
        /\ pixelX # 255
        /\ BitAnd(p.ppuMask, \h18) = \h18
        /\ ~(BitAnd(p.ppuMask, \h06) # \h06 /\ pixelX < 8)

\* step() stores a byte in the frame buffer at this dot
VisibleDot(m) ==
    m.ppu.scanline < 240 /\ m.ppu.cycle >= 1 /\ m.ppu.cycle <= 256

\* The byte step() stores in the frame buffer at a visible dot.  With
\* rendering on it is the one renderPixel computes, index being the palette
\* index its priority multiplexer selects from the picture data; with
\* rendering off it is paletteRam[0] as it is.
PixelOutput(m, index) ==
    IF BitAnd(m.ppu.ppuMask, \h18) # 0
    THEN BitAnd(MapGet(m.ppu.paletteRam, paletteIndex(\h3F00 + index)), \h3F)
    ELSE MapGet(m.ppu.paletteRam, 0)

renderPixel(m, inp) ==
    IF HitPossible(m) /\ inp.hit
    THEN [m EXCEPT !.ppu.ppuStatus = BitOr(@, \h40)]
    ELSE m

Rendering(m, inp) ==
    LET p == m.ppu
        preLine == p.scanline = 261
        visibleLine == p.scanline < 240
        renderLine == preLine \/ visibleLine
        fetchCycle == (p.cycle >= 1 /\ p.cycle <= 256) \/ (p.cycle >= 321 /\ p.cycle <= 336)
        \* the stages of the rendering block, each on the machine s the
        \* stage before it left; p is the PPU as step() found it
        Background(s) == IF renderLine /\ fetchCycle THEN BackgroundFetch(s) ELSE s
        LineEnd(s) == IF renderLine /\ p.cycle = 256 THEN incrementY(s) ELSE s
        CopyX(s) ==
            IF renderLine /\ p.cycle = 257
            THEN [s EXCEPT !.ppu.v = BitOr(BitClear(@, \h041F), BitAnd(s.ppu.t, \h041F))]
            ELSE s
        CopyY(s) ==
            IF preLine /\ p.cycle >= 280 /\ p.cycle <= 304
            THEN [s EXCEPT !.ppu.v = BitOr(BitClear(@, \h7BE0), BitAnd(s.ppu.t, \h7BE0))]
            ELSE s
        Evaluate(s) == IF p.cycle = 257 /\ visibleLine THEN evaluateSprites(s, inp) ELSE s
        Load(s) == IF p.cycle = 321 /\ visibleLine THEN loadSpritesForScanline(s, inp) ELSE s
    IN  Load(Evaluate(CopyY(CopyX(LineEnd(Background(m))))))

\* Variant of VBlankStart: the NMI request does not depend on PPUCTRL
VBlankStartUnconditional(m) ==
    IF m.ppu.scanline = 241 /\ m.ppu.cycle = 1
    THEN [m EXCEPT !.ppu.ppuStatus = BitOr(@, \h80),
                   !.ppu.nmiPending = TRUE,
                   !.ppu.frameComplete = TRUE]
    ELSE m

VBlankStart(m) ==
    IF m.ppu.scanline = 241 /\ m.ppu.cycle = 1
    THEN [m EXCEPT !.ppu.ppuStatus = BitOr(@, \h80),
                   !.ppu.nmiPending = IF Test(m.ppu.ppuCtrl, \h80) THEN TRUE ELSE @,
                   !.ppu.frameComplete = TRUE]
    ELSE m

PreRenderClear(m) ==
    IF m.ppu.scanline = 261 /\ m.ppu.cycle = 1
    THEN [m EXCEPT !.ppu.ppuStatus = BitClear(BitClear(BitClear(@, \h80), \h40), \h20),
                   !.ppu.nmiPending = FALSE]
    ELSE m

Advance(m) ==
    LET p == m.ppu
    IN  IF p.cycle + 1 > 340
        THEN IF p.scanline + 1 > 261
             THEN [m EXCEPT !.ppu.cycle = 0, !.ppu.scanline = 0,
                            !.ppu.oddFrame = ~@, !.ppu.frameComplete = FALSE]
             ELSE [m EXCEPT !.ppu.cycle = 0, !.ppu.scanline = @ + 1]
        ELSE [m EXCEPT !.ppu.cycle = @ + 1]

\* Variant of OddFrameSkip: the dot is skipped on every frame
OddFrameSkipEveryFrame(m, preLine, renderingEnabled) ==
    IF preLine /\ m.ppu.cycle = 340 /\ renderingEnabled
    THEN [m EXCEPT !.ppu.cycle = 0, !.ppu.scanline = 0, !.ppu.oddFrame = ~@]
    ELSE m

\* preLine and renderingEnabled are the values step() computed on entry
OddFrameSkip(m, preLine, renderingEnabled) ==
    IF preLine /\ m.ppu.cycle = 340 /\ m.ppu.oddFrame /\ renderingEnabled
    THEN [m EXCEPT !.ppu.cycle = 0, !.ppu.scanline = 0, !.ppu.oddFrame = ~@]
    ELSE m

PpuStep(m, inp) ==
    LET renderingEnabled == BitAnd(m.ppu.ppuMask, \h18) # 0
        preLine == m.ppu.scanline = 261
        Render(s) == IF renderingEnabled THEN renderPixel(Rendering(s, inp), inp) ELSE s
    IN  OddFrameSkip(Advance(PreRenderClear(VBlankStart(Render(m)))),
                     preLine, renderingEnabled)

SpriteCounts == {0, 1, MaxSprites}

\* The inputs the step at the current dot can read.
PpuInputs(m) ==
    LET p == m.ppu
        renderingEnabled == BitAnd(p.ppuMask, \h18) # 0
    IN  IF renderingEnabled /\ p.scanline < 240 /\ p.cycle = 257
        THEN {[NoInput EXCEPT !.count = n, !.sprite0 = s, !.overflow = o] :
                 <<n, s, o>> \in {c \in SpriteCounts \X BOOLEAN \X BOOLEAN :
                                     /\ c[2] => c[1] >= 1
                                     /\ c[3] => c[1] >= MaxSprites}}
        ELSE IF renderingEnabled /\ p.scanline < 240 /\ p.cycle = 321
                /\ Test(p.ppuCtrl, \h20)
        THEN {[NoInput EXCEPT !.tableBits = b] : b \in [1..p.spriteCount -> {0, 1}]}
        ELSE IF renderingEnabled /\ HitPossible(m) /\ ~Test(p.ppuStatus, \h40)
        THEN {NoInput, [NoInput EXCEPT !.hit = TRUE]}
        ELSE {NoInput}

---------------------------------------------------------------------------
(* controller.ts                                                           *)

NewController ==
    [buttons |-> [i \in 0..7 |-> FALSE], shiftRegister |-> 0, strobe |-> FALSE]

RECURSIVE ButtonBits(_, _)
ButtonBits(buttons, i) ==
    IF i > 7 THEN 0
    ELSE (IF buttons[i] THEN 2 ^ i ELSE 0) + ButtonBits(buttons, i + 1)

reloadShiftRegister(c) == [c EXCEPT !.shiftRegister = ButtonBits(c.buttons, 0)]

setButton(c, button, pressed) == [c EXCEPT !.buttons[button] = pressed]

ControllerWrite(c, value) ==
    LET c1 == [c EXCEPT !.strobe = value % 2 # 0]
    IN  IF c1.strobe THEN reloadShiftRegister(c1) ELSE c1

\* Variant of ControllerRead: zeros are shifted in from the top
ControllerReadZeroFill(c) ==
    IF c.strobe
    THEN LET c1 == reloadShiftRegister(c)
         IN  [val |-> c1.shiftRegister % 2, c |-> c1]
    ELSE [val |-> c.shiftRegister % 2,
          c |-> [c EXCEPT !.shiftRegister = ShiftRight(@, 1)]]

\* Variant of ControllerRead: a read shifts whatever the strobe is
ControllerReadShifting(c) ==
    LET c1 == IF c.strobe THEN reloadShiftRegister(c) ELSE c
    IN  [val |-> c1.shiftRegister % 2,
         c |-> [c1 EXCEPT !.shiftRegister = BitOr(ShiftRight(@, 1), \h80)]]

\* [val, c]: the bit returned and the controller after the read
ControllerRead(c) ==
    IF c.strobe
    THEN LET c1 == reloadShiftRegister(c)
         IN  [val |-> c1.shiftRegister % 2, c |-> c1]
    ELSE [val |-> c.shiftRegister % 2,
          c |-> [c EXCEPT !.shiftRegister = BitOr(ShiftRight(@, 1), \h80)]]

---------------------------------------------------------------------------
(* bus.ts.  The PPU device and the DMA stall callback are wired as main()  *)
(* wires them: ppuDevice to the PPU's registers, onDmaStall to             *)
(* cpu.stallCycles.                                                        *)

\* apu.ts is not part of the sources at hand; the stub's status read is
\* taken from the design text.
ApuRead(address) == 0

\* Variant of stallCycles: the request replaces an outstanding stall
stallCyclesReplacing(m, n) == [m EXCEPT !.cpu.stallCyclesCount = n]

stallCycles(m, n) == [m EXCEPT !.cpu.stallCyclesCount = @ + n]

BusCpuRead(m, address0) ==
    LET address == address0 % \h10000
    IN  IF address < \h2000
        THEN [val |-> MapGet(m.ram, address % \h0800), m |-> m]
        ELSE IF address < \h4000
        THEN readRegister(m, \h2000 + (address % 8))
        ELSE IF address < \h4020
        THEN IF address = \h4015 THEN [val |-> ApuRead(address), m |-> m]
             ELSE IF address = \h4016
             THEN LET Pad1(r) == [val |-> r.val, m |-> [m EXCEPT !.controller1 = r.c]]
                  IN  Pad1(ControllerRead(m.controller1))
             ELSE IF address = \h4017
             THEN LET Pad2(r) == [val |-> r.val, m |-> [m EXCEPT !.controller2 = r.c]]
                  IN  Pad2(ControllerRead(m.controller2))
             ELSE [val |-> 0, m |-> m]
        ELSE [val |-> MapperCpuRead(m.mapper, address), m |-> m]

\* The reads of performOamDma for i = from .. from + count - 1, in order;
\* [data, m] with data the bytes read as a sequence.  The loop is split in
\* halves, the second half reading from the machine the first left.
RECURSIVE DmaReads(_, _, _, _)
DmaReads(m, baseAddress, from, count) ==
    IF count = 1
    THEN LET One(r) == [data |-> <<r.val % 256>>, m |-> r.m]
         IN  One(BusCpuRead(m, baseAddress + from))
    ELSE LET half == count \div 2
             Join(a, b) == [data |-> a.data \o b.data, m |-> b.m]
             Second(a) ==
                 Join(a, DmaReads(a.m, baseAddress, from + half, count - half))
         IN  Second(DmaReads(m, baseAddress, from, half))

DMA_STALL == 513

\* Variant of performOamDma: the stall callback is not invoked
performOamDmaUnstalled(m, page) ==
    LET Copy(got) == oamDmaWrite(got.m, [i \in 0..255 |-> got.data[i + 1]])
    IN  Copy(DmaReads(m, page * 256, 0, 256))

performOamDma(m, page) ==
    LET Copy(got) ==
            stallCycles(oamDmaWrite(got.m, [i \in 0..255 |-> got.data[i + 1]]),
                        DMA_STALL)
    IN  Copy(DmaReads(m, page * 256, 0, 256))

\* Variant of Bus.cpuWrite: the PPU register address is passed on as it is
BusCpuWriteUnmirrored(m, address0, value) ==
    LET address == address0 % \h10000
    IN  IF address < \h2000
        THEN [m EXCEPT !.ram = MapPut(@, address % \h0800, value % 256)]
        ELSE IF address < \h4000
        THEN writeRegister(m, address, value)
        ELSE IF address < \h4020
        THEN IF address = \h4014 THEN performOamDma(m, value)
             ELSE IF address = \h4016
             THEN [m EXCEPT !.controller1 = ControllerWrite(@, value),
                            !.controller2 = ControllerWrite(@, value)]
             ELSE m
        ELSE [m EXCEPT !.mapper = MapperCpuWrite(@, address, value)]

BusCpuWrite(m, address0, value) ==
    LET address == address0 % \h10000
    IN  IF address < \h2000
        THEN [m EXCEPT !.ram = MapPut(@, address % \h0800, value % 256)]
        ELSE IF address < \h4000
        THEN writeRegister(m, \h2000 + (address % 8), value)
        ELSE IF address < \h4020
        THEN IF address = \h4014 THEN performOamDma(m, value)
             ELSE IF address = \h4016
             THEN [m EXCEPT !.controller1 = ControllerWrite(@, value),
                            !.controller2 = ControllerWrite(@, value)]
             ELSE m
        ELSE [m EXCEPT !.mapper = MapperCpuWrite(@, address, value)]

---------------------------------------------------------------------------
(* cpu.ts: registers, flags and the stack.  cpu.read and cpu.write are     *)
(* wired to the bus.                                                       *)

NewCPU ==
    [a |-> 0, x |-> 0, y |-> 0, sp |-> \hFD, pc |-> 0, status |-> \h24,
     totalCycles |-> 0, stallCyclesCount |-> 0,
     nmiPending |-> FALSE, irqPending |-> FALSE]

getFlag(m, flag) == Test(m.cpu.status, flag)

setFlag(m, flag, value) ==
    [m EXCEPT !.cpu.status = IF value THEN BitOr(@, flag) ELSE BitClear(@, flag)]

updateZN(m, value) ==
    setFlag(setFlag(m, Zero, value % 256 = 0), Negative, Test(value, \h80))

\* read(lo) | (read(lo + 1) << 8), the low byte read first
ReadVector(m, address) ==
    LET Word(lo, hi) == [val |-> lo.val + hi.val * 256, m |-> hi.m]
        High(lo) == Word(lo, BusCpuRead(lo.m, address + 1))
    IN  High(BusCpuRead(m, address))

\* Variant of reset: the requests and the stall outstanding are kept
resetKeepPending(m) ==
    LET Registers(vec) ==
            [vec.m EXCEPT !.cpu = [a |-> 0, x |-> 0, y |-> 0, sp |-> \hFD,
                                   status |-> \h24, pc |-> vec.val,
                                   totalCycles |-> 7,
                                   stallCyclesCount |-> m.cpu.stallCyclesCount,
                                   nmiPending |-> m.cpu.nmiPending,
                                   irqPending |-> m.cpu.irqPending]]
    IN  Registers(ReadVector(m, \hFFFC))

reset(m) ==
    LET Registers(vec) ==
            [vec.m EXCEPT !.cpu = [a |-> 0, x |-> 0, y |-> 0, sp |-> \hFD,
                                   status |-> \h24, pc |-> vec.val,
                                   totalCycles |-> 7, stallCyclesCount |-> 0,
                                   nmiPending |-> FALSE, irqPending |-> FALSE]]
    IN  Registers(ReadVector(m, \hFFFC))

\* Variant of triggerNMI: the request is not latched
triggerNMIDropped(m) == m

triggerNMI(m) == [m EXCEPT !.cpu.nmiPending = TRUE]

triggerIRQ(m) == [m EXCEPT !.cpu.irqPending = TRUE]

clearIRQ(m) == [m EXCEPT !.cpu.irqPending = FALSE]

pushByte(m, value) ==
    [BusCpuWrite(m, \h0100 + m.cpu.sp, value) EXCEPT !.cpu.sp = (m.cpu.sp + 255) % 256]

pullByte(m) ==
    LET sp1 == (m.cpu.sp + 1) % 256
    IN  BusCpuRead([m EXCEPT !.cpu.sp = sp1], \h0100 + sp1)

pushWord(m, value) ==
    pushByte(pushByte(m, ShiftRight(value, 8) % 256), value % 256)

pullWord(m) ==
    LET Word(lo, hi) == [val |-> hi.val * 256 + lo.val, m |-> hi.m]
        High(lo) == Word(lo, pullByte(lo.m))
    IN  High(pullByte(m))

\* Variant of InterruptStatus: the byte PHP and BRK push (B and U set)
InterruptStatusWithBreak(status) == BitOr(status, \h30)

\* The status byte an interrupt pushes: U set, B clear
InterruptStatus(status) == BitClear(BitOr(status, \h20), \h10)

handleNMI(m) ==
    LET PushStatus(s) == pushByte(s, InterruptStatus(s.cpu.status))
        Jump(vec) == [vec.m EXCEPT !.cpu.pc = vec.val, !.cpu.totalCycles = @ + 7]
    IN  Jump(ReadVector(setFlag(PushStatus(pushWord(m, m.cpu.pc)),
                                InterruptDisable, TRUE),
                        \hFFFA))

\* Variant of handleIRQ: the request is acknowledged by the service itself
handleIRQAcknowledging(m) ==
    LET PushStatus(s) == pushByte(s, InterruptStatus(s.cpu.status))
        Jump(vec) == [vec.m EXCEPT !.cpu.pc = vec.val, !.cpu.totalCycles = @ + 7,
                                   !.cpu.irqPending = FALSE]
    IN  Jump(ReadVector(setFlag(PushStatus(pushWord(m, m.cpu.pc)),
                                InterruptDisable, TRUE),
                        \hFFFE))

\* Variant of handleIRQ: InterruptDisable is set before the status is pushed
handleIRQMaskedFirst(m) ==
    LET PushStatus(s) == pushByte(s, InterruptStatus(s.cpu.status))
        Jump(vec) == [vec.m EXCEPT !.cpu.pc = vec.val, !.cpu.totalCycles = @ + 7]
    IN  Jump(ReadVector(PushStatus(setFlag(pushWord(m, m.cpu.pc),
                                           InterruptDisable, TRUE)),
                        \hFFFE))

handleIRQ(m) ==
    LET PushStatus(s) == pushByte(s, InterruptStatus(s.cpu.status))
        Jump(vec) == [vec.m EXCEPT !.cpu.pc = vec.val, !.cpu.totalCycles = @ + 7]
    IN  Jump(ReadVector(setFlag(PushStatus(pushWord(m, m.cpu.pc)),
                                InterruptDisable, TRUE),
                        \hFFFE))

---------------------------------------------------------------------------
(* cpu.ts: addressing modes.  [address, pageCrossed, m]                    *)

\* read(pc), then pc = (pc + 1) & 0xFFFF
Fetch(m) ==
    LET Next1(r) ==
            [val |-> r.val, m |-> [r.m EXCEPT !.cpu.pc = (m.cpu.pc + 1) % \h10000]]
    IN  Next1(BusCpuRead(m, m.cpu.pc))

FetchWord(m) ==
    LET Word(lo, hi) == [val |-> hi.val * 256 + lo.val, m |-> hi.m]
        High(lo) == Word(lo, Fetch(lo.m))
    IN  High(Fetch(m))

PageOf(address) == ShiftRight(address, 8)

\* The operand byte or word (operand.val, read from the machine operand.m
\* the fetch left) to [address, pageCrossed, m], per mode.
ZeroPageIndexed(operand, index) ==
    [address |-> (operand.val + index) % 256, pageCrossed |-> FALSE, m |-> operand.m]

AbsoluteIndexed(operand, index) ==
    LET Crossing(addr) ==
            [address |-> addr, pageCrossed |-> PageOf(operand.val) # PageOf(addr),
             m |-> operand.m]
    IN  Crossing((operand.val + index) % \h10000)

\* the two reads of a pointer, the high byte from hiAddress
ReadPointer(m, loAddress, hiAddress) ==
    LET Word(lo, hi) == [val |-> hi.val * 256 + lo.val, m |-> hi.m]
        High(lo) == Word(lo, BusCpuRead(lo.m, hiAddress))
    IN  High(BusCpuRead(m, loAddress))

IndirectOperand(operand) ==
    LET Target(eff) == [address |-> eff.val, pageCrossed |-> FALSE, m |-> eff.m]
    IN  Target(ReadPointer(operand.m, operand.val,
                           PageOf(operand.val) * 256 + ((operand.val + 1) % 256)))

IndexedIndirectOperand(operand, x) ==
    LET Target(eff) == [address |-> eff.val, pageCrossed |-> FALSE, m |-> eff.m]
        Pointer(pointer) == ReadPointer(operand.m, pointer, (pointer + 1) % 256)
    IN  Target(Pointer((operand.val + x) % 256))

IndirectIndexedOperand(operand, y) ==
    AbsoluteIndexed(ReadPointer(operand.m, operand.val, (operand.val + 1) % 256), y)

RelativeOperand(operand) ==
    LET offset == IF operand.val >= \h80 THEN operand.val - \h100 ELSE operand.val
        Crossing(addr) ==
            [address |-> addr, pageCrossed |-> PageOf(operand.m.cpu.pc) # PageOf(addr),
             m |-> operand.m]
    IN  Crossing((operand.m.cpu.pc + offset + \h10000) % \h10000)

resolveAddress(m, mode) ==
    CASE mode \in {"Implied", "Accumulator"} ->
            [address |-> 0, pageCrossed |-> FALSE, m |-> m]
      [] mode = "Immediate" ->
            [address |-> m.cpu.pc, pageCrossed |-> FALSE,
             m |-> [m EXCEPT !.cpu.pc = (@ + 1) % \h10000]]
      [] mode = "ZeroPage" -> ZeroPageIndexed(Fetch(m), 0)
      [] mode = "ZeroPageX" -> ZeroPageIndexed(Fetch(m), m.cpu.x)
      [] mode = "ZeroPageY" -> ZeroPageIndexed(Fetch(m), m.cpu.y)
      [] mode = "Absolute" -> AbsoluteIndexed(FetchWord(m), 0)
      [] mode = "AbsoluteX" -> AbsoluteIndexed(FetchWord(m), m.cpu.x)
      [] mode = "AbsoluteY" -> AbsoluteIndexed(FetchWord(m), m.cpu.y)
      [] mode = "Indirect" -> IndirectOperand(FetchWord(m))
      [] mode = "IndexedIndirect" -> IndexedIndirectOperand(Fetch(m), m.cpu.x)
      [] mode = "IndirectIndexed" -> IndirectIndexedOperand(Fetch(m), m.cpu.y)
      [] mode = "Relative" -> RelativeOperand(Fetch(m))
      [] OTHER -> [address |-> 0, pageCrossed |-> FALSE, m |-> m]

---------------------------------------------------------------------------
(* opcodes.ts: the 256-entry opcode table, every unassigned opcode an      *)
(* illegal NOP.  Row k of the tuple is opcode k - 1.                       *)

op(name, mode, cycles, pageCrossPenalty) ==
    [name |-> name, mode |-> mode, cycles |-> cycles,
     pageCrossPenalty |-> pageCrossPenalty]

illegalNop == op("NOP", "Implied", 2, FALSE)

opcodeTable == <<
    op("BRK", "Implied", 7, FALSE), op("ORA", "IndexedIndirect", 6, FALSE),
    illegalNop, illegalNop,
    illegalNop, op("ORA", "ZeroPage", 3, FALSE),
    op("ASL", "ZeroPage", 5, FALSE), illegalNop,
    op("PHP", "Implied", 3, FALSE), op("ORA", "Immediate", 2, FALSE),
    op("ASL", "Accumulator", 2, FALSE), illegalNop,
    illegalNop, op("ORA", "Absolute", 4, FALSE),
    op("ASL", "Absolute", 6, FALSE), illegalNop,
    op("BPL", "Relative", 2, FALSE), op("ORA", "IndirectIndexed", 5, TRUE),
    illegalNop, illegalNop,
    illegalNop, op("ORA", "ZeroPageX", 4, FALSE),
    op("ASL", "ZeroPageX", 6, FALSE), illegalNop,
    op("CLC", "Implied", 2, FALSE), op("ORA", "AbsoluteY", 4, TRUE),
    illegalNop, illegalNop,
    illegalNop, op("ORA", "AbsoluteX", 4, TRUE),
    op("ASL", "AbsoluteX", 7, FALSE), illegalNop,
    op("JSR", "Absolute", 6, FALSE), op("AND", "IndexedIndirect", 6, FALSE),
    illegalNop, illegalNop,
    op("BIT", "ZeroPage", 3, FALSE), op("AND", "ZeroPage", 3, FALSE),
    op("ROL", "ZeroPage", 5, FALSE), illegalNop,
    op("PLP", "Implied", 4, FALSE), op("AND", "Immediate", 2, FALSE),
    op("ROL", "Accumulator", 2, FALSE), illegalNop,
    op("BIT", "Absolute", 4, FALSE), op("AND", "Absolute", 4, FALSE),
    op("ROL", "Absolute", 6, FALSE), illegalNop,
    op("BMI", "Relative", 2, FALSE), op("AND", "IndirectIndexed", 5, TRUE),
    illegalNop, illegalNop,
    illegalNop, op("AND", "ZeroPageX", 4, FALSE),
    op("ROL", "ZeroPageX", 6, FALSE), illegalNop,
    op("SEC", "Implied", 2, FALSE), op("AND", "AbsoluteY", 4, TRUE),
    illegalNop, illegalNop,
    illegalNop, op("AND", "AbsoluteX", 4, TRUE),
    op("ROL", "AbsoluteX", 7, FALSE), illegalNop,
    op("RTI", "Implied", 6, FALSE), op("EOR", "IndexedIndirect", 6, FALSE),
    illegalNop, illegalNop,
    illegalNop, op("EOR", "ZeroPage", 3, FALSE),
    op("LSR", "ZeroPage", 5, FALSE), illegalNop,
    op("PHA", "Implied", 3, FALSE), op("EOR", "Immediate", 2, FALSE),
    op("LSR", "Accumulator", 2, FALSE), illegalNop,
    op("JMP", "Absolute", 3, FALSE), op("EOR", "Absolute", 4, FALSE),
    op("LSR", "Absolute", 6, FALSE), illegalNop,
    op("BVC", "Relative", 2, FALSE), op("EOR", "IndirectIndexed", 5, TRUE),
    illegalNop, illegalNop,
    illegalNop, op("EOR", "ZeroPageX", 4, FALSE),
    op("LSR", "ZeroPageX", 6, FALSE), illegalNop,
    op("CLI", "Implied", 2, FALSE), op("EOR", "AbsoluteY", 4, TRUE),
    illegalNop, illegalNop,
    illegalNop, op("EOR", "AbsoluteX", 4, TRUE),
    op("LSR", "AbsoluteX", 7, FALSE), illegalNop,
    op("RTS", "Implied", 6, FALSE), op("ADC", "IndexedIndirect", 6, FALSE),
    illegalNop, illegalNop,
    illegalNop, op("ADC", "ZeroPage", 3, FALSE),
    op("ROR", "ZeroPage", 5, FALSE), illegalNop,
    op("PLA", "Implied", 4, FALSE), op("ADC", "Immediate", 2, FALSE),
    op("ROR", "Accumulator", 2, FALSE), illegalNop,
    op("JMP", "Indirect", 5, FALSE), op("ADC", "Absolute", 4, FALSE),
    op("ROR", "Absolute", 6, FALSE), illegalNop,
    op("BVS", "Relative", 2, FALSE), op("ADC", "IndirectIndexed", 5, TRUE),
    illegalNop, illegalNop,
    illegalNop, op("ADC", "ZeroPageX", 4, FALSE),
    op("ROR", "ZeroPageX", 6, FALSE), illegalNop,
    op("SEI", "Implied", 2, FALSE), op("ADC", "AbsoluteY", 4, TRUE),
    illegalNop, illegalNop,
    illegalNop, op("ADC", "AbsoluteX", 4, TRUE),
    op("ROR", "AbsoluteX", 7, FALSE), illegalNop,
    illegalNop, op("STA", "IndexedIndirect", 6, FALSE),
    illegalNop, illegalNop,
    op("STY", "ZeroPage", 3, FALSE), op("STA", "ZeroPage", 3, FALSE),
    op("STX", "ZeroPage", 3, FALSE), illegalNop,
    op("DEY", "Implied", 2, FALSE), illegalNop,
    op("TXA", "Implied", 2, FALSE), illegalNop,
    op("STY", "Absolute", 4, FALSE), op("STA", "Absolute", 4, FALSE),
    op("STX", "Absolute", 4, FALSE), illegalNop,
    op("BCC", "Relative", 2, FALSE), op("STA", "IndirectIndexed", 6, FALSE),
    illegalNop, illegalNop,
    op("STY", "ZeroPageX", 4, FALSE), op("STA", "ZeroPageX", 4, FALSE),
    op("STX", "ZeroPageY", 4, FALSE), illegalNop,
    op("TYA", "Implied", 2, FALSE), op("STA", "AbsoluteY", 5, FALSE),
    op("TXS", "Implied", 2, FALSE), illegalNop,
    illegalNop, op("STA", "AbsoluteX", 5, FALSE),
    illegalNop, illegalNop,
    op("LDY", "Immediate", 2, FALSE), op("LDA", "IndexedIndirect", 6, FALSE),
    op("LDX", "Immediate", 2, FALSE), illegalNop,
    op("LDY", "ZeroPage", 3, FALSE), op("LDA", "ZeroPage", 3, FALSE),
    op("LDX", "ZeroPage", 3, FALSE), illegalNop,
    op("TAY", "Implied", 2, FALSE), op("LDA", "Immediate", 2, FALSE),
    op("TAX", "Implied", 2, FALSE), illegalNop,
    op("LDY", "Absolute", 4, FALSE), op("LDA", "Absolute", 4, FALSE),
    op("LDX", "Absolute", 4, FALSE), illegalNop,
    op("BCS", "Relative", 2, FALSE), op("LDA", "IndirectIndexed", 5, TRUE),
    illegalNop, illegalNop,
    op("LDY", "ZeroPageX", 4, FALSE), op("LDA", "ZeroPageX", 4, FALSE),
    op("LDX", "ZeroPageY", 4, FALSE), illegalNop,
    op("CLV", "Implied", 2, FALSE), op("LDA", "AbsoluteY", 4, TRUE),
    op("TSX", "Implied", 2, FALSE), illegalNop,
    op("LDY", "AbsoluteX", 4, TRUE), op("LDA", "AbsoluteX", 4, TRUE),
    op("LDX", "AbsoluteY", 4, TRUE), illegalNop,
    op("CPY", "Immediate", 2, FALSE), op("CMP", "IndexedIndirect", 6, FALSE),
    illegalNop, illegalNop,
    op("CPY", "ZeroPage", 3, FALSE), op("CMP", "ZeroPage", 3, FALSE),
    op("DEC", "ZeroPage", 5, FALSE), illegalNop,
    op("INY", "Implied", 2, FALSE), op("CMP", "Immediate", 2, FALSE),
    op("DEX", "Implied", 2, FALSE), illegalNop,
    op("CPY", "Absolute", 4, FALSE), op("CMP", "Absolute", 4, FALSE),
    op("DEC", "Absolute", 6, FALSE), illegalNop,
    op("BNE", "Relative", 2, FALSE), op("CMP", "IndirectIndexed", 5, TRUE),
    illegalNop, illegalNop,
    illegalNop, op("CMP", "ZeroPageX", 4, FALSE),
    op("DEC", "ZeroPageX", 6, FALSE), illegalNop,
    op("CLD", "Implied", 2, FALSE), op("CMP", "AbsoluteY", 4, TRUE),
    illegalNop, illegalNop,
    illegalNop, op("CMP", "AbsoluteX", 4, TRUE),
    op("DEC", "AbsoluteX", 7, FALSE), illegalNop,
    op("CPX", "Immediate", 2, FALSE), op("SBC", "IndexedIndirect", 6, FALSE),
    illegalNop, illegalNop,
    op("CPX", "ZeroPage", 3, FALSE), op("SBC", "ZeroPage", 3, FALSE),
    op("INC", "ZeroPage", 5, FALSE), illegalNop,
    op("INX", "Implied", 2, FALSE), op("SBC", "Immediate", 2, FALSE),
    op("NOP", "Implied", 2, FALSE), illegalNop,
    op("CPX", "Absolute", 4, FALSE), op("SBC", "Absolute", 4, FALSE),
    op("INC", "Absolute", 6, FALSE), illegalNop,
    op("BEQ", "Relative", 2, FALSE), op("SBC", "IndirectIndexed", 5, TRUE),
    illegalNop, illegalNop,
    illegalNop, op("SBC", "ZeroPageX", 4, FALSE),
    op("INC", "ZeroPageX", 6, FALSE), illegalNop,
    op("SED", "Implied", 2, FALSE), op("SBC", "AbsoluteY", 4, TRUE),
    illegalNop, illegalNop,
    illegalNop, op("SBC", "AbsoluteX", 4, TRUE),
    op("INC", "AbsoluteX", 7, FALSE), illegalNop
    >>

OpcodeEntry(opcode) == opcodeTable[opcode + 1]

---------------------------------------------------------------------------
(* instructions.ts.  Execute is entry.execute(ctx): [m, extraCycles].      *)

compare(m, register, value) ==
    LET result == (register - value + \h10000) % \h10000
    IN  setFlag(setFlag(setFlag(m, Carry, register >= value),
                        Zero, result % 256 = 0),
                Negative, Test(result, \h80))

branch(m, address, pageCrossed, condition) ==
    IF condition
    THEN [m |-> [m EXCEPT !.cpu.pc = address],
          extraCycles |-> IF pageCrossed THEN 2 ELSE 1]
    ELSE [m |-> m, extraCycles |-> 0]

\* The common body of adc and sbc: val is the operand (sbc passes val ^ 0xFF)
\* Variant of AddWithCarry: overflow is taken from the carry out
AddWithCarryOverflowFromCarry(m, val) ==
    LET a == m.cpu.a
        sum == a + val + (IF getFlag(m, Carry) THEN 1 ELSE 0)
        m1 == setFlag(m, Carry, sum > \hFF)
        m2 == setFlag(m1, Overflow, sum > \hFF)
    IN  updateZN([m2 EXCEPT !.cpu.a = sum % 256], sum % 256)

AddWithCarry(m, val) ==
    LET a == m.cpu.a
        sum == a + val + (IF getFlag(m, Carry) THEN 1 ELSE 0)
        m1 == setFlag(m, Carry, sum > \hFF)
        m2 == setFlag(m1, Overflow,
                      Test(BitAnd(BitXor(a, sum), BitXor(val, sum)), \h80))
    IN  updateZN([m2 EXCEPT !.cpu.a = sum % 256], sum % 256)

\* asl, lsr, rol, ror: carryOut and result from the operand and old carry
Shifted(name, val, oldCarry) ==
    CASE name = "ASL" -> [carry |-> Test(val, \h80), val |-> (val * 2) % 256]
      [] name = "LSR" -> [carry |-> Test(val, \h01), val |-> val \div 2]
      [] name = "ROL" -> [carry |-> Test(val, \h80),
                          val |-> ((val * 2) % 256) + (IF oldCarry THEN 1 ELSE 0)]
      [] name = "ROR" -> [carry |-> Test(val, \h01),
                          val |-> (val \div 2) + (IF oldCarry THEN \h80 ELSE 0)]

ShiftOp(m, name, mode, address) ==
    LET oldCarry == getFlag(m, Carry)
    IN  IF mode = "Accumulator"
        THEN LET s == Shifted(name, m.cpu.a, oldCarry)
             IN  updateZN([setFlag(m, Carry, s.carry) EXCEPT !.cpu.a = s.val], s.val)
        ELSE LET Store(s, read) ==
                     updateZN(BusCpuWrite(setFlag(read, Carry, s.carry), address, s.val),
                              s.val)
                 Modify(r) == Store(Shifted(name, r.val, oldCarry), r.m)
             IN  Modify(BusCpuRead(m, address))

\* Instructions that only load a register or combine A with the operand
\* r is the operand read, [val, m]
Operate(r, name, address) ==
    LET c == r.m.cpu
    IN  CASE name = "LDA" -> updateZN([r.m EXCEPT !.cpu.a = r.val], r.val)
          [] name = "LDX" -> updateZN([r.m EXCEPT !.cpu.x = r.val], r.val)
          [] name = "LDY" -> updateZN([r.m EXCEPT !.cpu.y = r.val], r.val)
          [] name = "AND" -> updateZN([r.m EXCEPT !.cpu.a = BitAnd(c.a, r.val)],
                                      BitAnd(c.a, r.val))
          [] name = "ORA" -> updateZN([r.m EXCEPT !.cpu.a = BitOr(c.a, r.val)],
                                      BitOr(c.a, r.val))
          [] name = "EOR" -> updateZN([r.m EXCEPT !.cpu.a = BitXor(c.a, r.val)],
                                      BitXor(c.a, r.val))
          [] name = "ADC" -> AddWithCarry(r.m, r.val)
          [] name = "SBC" -> AddWithCarry(r.m, BitXor(r.val, \hFF))
          [] name = "CMP" -> compare(r.m, c.a, r.val)
          [] name = "CPX" -> compare(r.m, c.x, r.val)
          [] name = "CPY" -> compare(r.m, c.y, r.val)
          [] name = "BIT" ->
                setFlag(setFlag(setFlag(r.m, Zero, BitAnd(c.a, r.val) = 0),
                                Overflow, Test(r.val, \h40)),
                        Negative, Test(r.val, \h80))
          [] name = "INC" ->
                LET val == (r.val + 1) % 256
                IN  updateZN(BusCpuWrite(r.m, address, val), val)
          [] name = "DEC" ->
                LET val == (r.val + 255) % 256
                IN  updateZN(BusCpuWrite(r.m, address, val), val)

LoadOp(m, name, address) == Operate(BusCpuRead(m, address), name, address)

\* Register transfers, increments and flag instructions
RegisterOp(m, name) ==
    LET c == m.cpu
    IN  CASE name = "TAX" -> updateZN([m EXCEPT !.cpu.x = c.a], c.a)
          [] name = "TAY" -> updateZN([m EXCEPT !.cpu.y = c.a], c.a)
          [] name = "TSX" -> updateZN([m EXCEPT !.cpu.x = c.sp], c.sp)
          [] name = "TXA" -> updateZN([m EXCEPT !.cpu.a = c.x], c.x)
          [] name = "TYA" -> updateZN([m EXCEPT !.cpu.a = c.y], c.y)
          [] name = "TXS" -> [m EXCEPT !.cpu.sp = c.x]
          [] name = "INX" -> updateZN([m EXCEPT !.cpu.x = (c.x + 1) % 256], (c.x + 1) % 256)
          [] name = "INY" -> updateZN([m EXCEPT !.cpu.y = (c.y + 1) % 256], (c.y + 1) % 256)
          [] name = "DEX" -> updateZN([m EXCEPT !.cpu.x = (c.x + 255) % 256], (c.x + 255) % 256)
          [] name = "DEY" -> updateZN([m EXCEPT !.cpu.y = (c.y + 255) % 256], (c.y + 255) % 256)
          [] name = "CLC" -> setFlag(m, Carry, FALSE)
          [] name = "CLD" -> setFlag(m, Decimal, FALSE)
          [] name = "CLI" -> setFlag(m, InterruptDisable, FALSE)
          [] name = "CLV" -> setFlag(m, Overflow, FALSE)
          [] name = "SEC" -> setFlag(m, Carry, TRUE)
          [] name = "SED" -> setFlag(m, Decimal, TRUE)
          [] name = "SEI" -> setFlag(m, InterruptDisable, TRUE)
          [] name = "NOP" -> m

\* Variant of PulledStatus: the B bit of the pulled byte is kept
PulledStatusKeepBreak(value) == BitOr(value, \h20)

\* plp and rti: (pullByte() & ~0x10) | 0x20
PulledStatus(value) == BitOr(BitClear(value, \h10), \h20)

\* this.status = PulledStatus(pullByte()), r the byte pulled
RestoreStatus(r) == [r.m EXCEPT !.cpu.status = PulledStatus(r.val)]

\* Stack and control-flow instructions
StackOp(m, name, address) ==
    CASE name = "PHA" -> pushByte(m, m.cpu.a)
      [] name = "PHP" -> pushByte(m, BitOr(m.cpu.status, \h30))
      [] name = "PLA" ->
            LET Pulled(r) == updateZN([r.m EXCEPT !.cpu.a = r.val], r.val)
            IN  Pulled(pullByte(m))
      [] name = "PLP" -> RestoreStatus(pullByte(m))
      [] name = "JMP" -> [m EXCEPT !.cpu.pc = address]
      [] name = "JSR" ->
            [pushWord(m, (m.cpu.pc + \hFFFF) % \h10000) EXCEPT !.cpu.pc = address]
      [] name = "RTS" ->
            LET Return(r) == [r.m EXCEPT !.cpu.pc = (r.val + 1) % \h10000]
            IN  Return(pullWord(m))
      [] name = "RTI" ->
            LET Return(r) == [r.m EXCEPT !.cpu.pc = r.val]
            IN  Return(pullWord(RestoreStatus(pullByte(m))))
      [] name = "BRK" ->
            LET PushPc(s) == pushWord(s, s.cpu.pc)
                PushStatus(s) == pushByte(s, BitOr(s.cpu.status, \h30))
                Jump(vec) == [vec.m EXCEPT !.cpu.pc = vec.val]
            IN  Jump(ReadVector(
                    setFlag(PushStatus(PushPc([m EXCEPT !.cpu.pc = (@ + 1) % \h10000])),
                            InterruptDisable, TRUE),
                    \hFFFE))

BranchCondition(m, name) ==
    CASE name = "BCC" -> ~getFlag(m, Carry)
      [] name = "BCS" -> getFlag(m, Carry)
      [] name = "BEQ" -> getFlag(m, Zero)
      [] name = "BNE" -> ~getFlag(m, Zero)
      [] name = "BMI" -> getFlag(m, Negative)
      [] name = "BPL" -> ~getFlag(m, Negative)
      [] name = "BVC" -> ~getFlag(m, Overflow)
      [] name = "BVS" -> getFlag(m, Overflow)

Execute(m, name, mode, address, pageCrossed) ==
    LET Plain(mm) == [m |-> mm, extraCycles |-> 0]
    IN  CASE name \in {"BCC", "BCS", "BEQ", "BNE", "BMI", "BPL", "BVC", "BVS"} ->
                branch(m, address, pageCrossed, BranchCondition(m, name))
          [] name \in {"ASL", "LSR", "ROL", "ROR"} ->
                Plain(ShiftOp(m, name, mode, address))
          [] name \in {"LDA", "LDX", "LDY", "AND", "ORA", "EOR", "ADC", "SBC",
                       "CMP", "CPX", "CPY", "BIT", "INC", "DEC"} ->
                Plain(LoadOp(m, name, address))
          [] name = "STA" -> Plain(BusCpuWrite(m, address, m.cpu.a))
          [] name = "STX" -> Plain(BusCpuWrite(m, address, m.cpu.x))
          [] name = "STY" -> Plain(BusCpuWrite(m, address, m.cpu.y))
          [] name \in {"PHA", "PHP", "PLA", "PLP", "JMP", "JSR", "RTS", "RTI",
                       "BRK"} ->
                Plain(StackOp(m, name, address))
          [] OTHER -> Plain(RegisterOp(m, name))

---------------------------------------------------------------------------
(* cpu.ts: step().  [m, ret, event]: the machine after the step, the       *)
(* cycle count returned and which of the four events the step was.         *)

\* The instruction path of step(): fetch, decode, resolve, execute, count
RunInstruction(m) ==
    LET Count(done, cycles) ==
            [m |-> [done.m EXCEPT !.cpu.totalCycles = @ + cycles],
             ret |-> cycles, event |-> "instruction"]
        Cycles(entry, resolved, done) ==
            Count(done, entry.cycles + done.extraCycles
                        + (IF entry.pageCrossPenalty /\ resolved.pageCrossed
                           THEN 1 ELSE 0))
        Run(entry, resolved) ==
            Cycles(entry, resolved,
                   Execute(resolved.m, entry.name, entry.mode,
                           resolved.address, resolved.pageCrossed))
        Resolve(opcode, entry) == Run(entry, resolveAddress(opcode.m, entry.mode))
        Decode(opcode) == Resolve(opcode, OpcodeEntry(opcode.val))
    IN  Decode(Fetch(m))

\* Variant of IrqReady: the InterruptDisable flag is not consulted
IrqReadyUnmasked(m) == m.cpu.irqPending

\* this.irqPending && !this.getFlag(StatusFlag.InterruptDisable)
IrqReady(m) == m.cpu.irqPending /\ ~getFlag(m, InterruptDisable)

\* Variant of StallTick: the cycle is returned but not counted
StallTickUncounted(m) ==
    [m |-> [m EXCEPT !.cpu.stallCyclesCount = @ - 1], ret |-> 1, event |-> "stall"]

StallTick(m) ==
    [m |-> [m EXCEPT !.cpu.stallCyclesCount = @ - 1, !.cpu.totalCycles = @ + 1],
     ret |-> 1, event |-> "stall"]

ServiceNMI(m) ==
    [m |-> [handleNMI(m) EXCEPT !.cpu.nmiPending = FALSE],
     ret |-> 7, event |-> "nmi"]

ServiceIRQ(m) == [m |-> handleIRQ(m), ret |-> 7, event |-> "irq"]

\* Variant of step: the IRQ test comes before the NMI test
stepIrqFirst(m) ==
    IF m.cpu.stallCyclesCount > 0 THEN StallTick(m)
    ELSE IF IrqReady(m) THEN ServiceIRQ(m)
    ELSE IF m.cpu.nmiPending THEN ServiceNMI(m)
    ELSE RunInstruction(m)

step(m) ==
    IF m.cpu.stallCyclesCount > 0 THEN StallTick(m)
    ELSE IF m.cpu.nmiPending THEN ServiceNMI(m)
    ELSE IF IrqReady(m) THEN ServiceIRQ(m)
    ELSE RunInstruction(m)

---------------------------------------------------------------------------
(* The machine.  cpu, ppu, ram, mapper and the controllers are the objects *)
(* main() creates and wires; driver is the position of the frame callback  *)
(* of main(); last and ppuSteps are history variables: the operation that  *)
(* produced the current state, and the number of ppu.step() calls made.    *)

VARIABLES cpu, ppu, ram, mapper, controller1, controller2, driver, last, ppuSteps

vars == <<cpu, ppu, ram, mapper, controller1, controller2, driver, last, ppuSteps>>

Machine ==
    [cpu |-> cpu, ppu |-> ppu, ram |-> ram, mapper |-> mapper,
     controller1 |-> controller1, controller2 |-> controller2]

Install(m) ==
    /\ cpu' = m.cpu
    /\ ppu' = m.ppu
    /\ ram' = m.ram
    /\ mapper' = m.mapper
    /\ controller1' = m.controller1
    /\ controller2' = m.controller2

\* The variables hold the machine m
Holds(m) ==
    /\ cpu = m.cpu
    /\ ppu = m.ppu
    /\ ram = m.ram
    /\ mapper = m.mapper
    /\ controller1 = m.controller1
    /\ controller2 = m.controller2

\* main(): the objects as constructed and wired, then cpu.reset()
PowerOn(kind, image) ==
    reset([cpu |-> NewCPU, ppu |-> NewPPU, ram |-> EmptyMap,
           mapper |-> NewMapper(kind, image, Horizontal, FALSE),
           controller1 |-> NewController, controller2 |-> NewController])

NoOp == [op |-> "none", event |-> "none", ret |-> 0, raised |-> FALSE]

Did(operation, event, ret, raised) ==
    [op |-> operation, event |-> event, ret |-> ret, raised |-> raised]

---------------------------------------------------------------------------
(* main.ts: the frame callback.                                            *)
(*   idle   between two callbacks                                          *)
(*   cpu    at the top of the while body, about to call cpu.step()         *)
(*   dots   in the for loop over the PPU dots of the last CPU event        *)

\* The CPU cycles a run of the whole system may take
MaxSysCycles == 27950

\* Variant of PpuCyclesFor: one dot to a CPU cycle
PpuCyclesOneToOne(cpuCycles) == cpuCycles

\* const ppuCycles = cpuCycles * PPU_CYCLES_PER_CPU
PpuCyclesFor(cpuCycles) == cpuCycles * PPU_CYCLES_PER_CPU

FrameCallback ==
    /\ driver.pc = "idle"
    /\ cpu.totalCycles < MaxSysCycles
    /\ driver' = [driver EXCEPT !.pc = "cpu", !.cpuCyclesThisFrame = 0]
    /\ last' = Did("callback", "none", 0, FALSE)
    /\ UNCHANGED <<cpu, ppu, ram, mapper, controller1, controller2, ppuSteps>>

DriverCpuStep ==
    /\ driver.pc = "cpu"
    /\ cpu.totalCycles < MaxSysCycles
    /\ LET Took(s) ==
               /\ Install(s.m)
               /\ driver' = [driver EXCEPT !.pc = "dots",
                                           !.cpuCyclesThisFrame = @ + s.ret,
                                           !.ppuCycles = PpuCyclesFor(s.ret),
                                           !.i = 0]
               /\ last' = Did("step", s.event, s.ret, FALSE)
       IN  Took(step(Machine))
    /\ UNCHANGED ppuSteps

\* One iteration of the for loop: ppu.step(), then the NMI hand-over
DriverPpuDot ==
    /\ driver.pc = "dots"
    /\ driver.i < driver.ppuCycles
    /\ \E inp \in PpuInputs(Machine) :
          LET Forward(stepped) ==
                  /\ Install(IF stepped.ppu.nmiPending
                             THEN [triggerNMI(stepped) EXCEPT !.ppu.nmiPending = FALSE]
                             ELSE stepped)
                  /\ last' = Did("dot", "none", 0, stepped.ppu.nmiPending)
          IN  Forward(PpuStep(Machine, inp))
    /\ driver' = [driver EXCEPT !.i = @ + 1]
    /\ ppuSteps' = ppuSteps + 1

\* After the for loop: the frame-complete test, then the while test
DriverIterationEnd ==
    /\ driver.pc = "dots"
    /\ driver.i >= driver.ppuCycles
    /\ IF ppu.frameComplete
       THEN /\ ppu' = [ppu EXCEPT !.frameComplete = FALSE]
            /\ driver' = [driver EXCEPT !.pc = "idle"]
       ELSE /\ ppu' = ppu
            /\ driver' = [driver EXCEPT !.pc =
                             IF 2 * driver.cpuCyclesThisFrame < CYCLES_PER_FRAME_X2
                             THEN "cpu" ELSE "idle"]
    /\ last' = Did("end", "none", 0, FALSE)
    /\ UNCHANGED <<cpu, ram, mapper, controller1, controller2, ppuSteps>>

---------------------------------------------------------------------------
(* Cartridges for the whole-system runs.                                   *)

\* 8000 LDA #$80 / STA $2000 / 8005 JMP $8005    nmi 8008 INC $00 / RTI
NmiProgram ==
    [code |-> <<\hA9, \h80, \h8D, \h00, \h20, \h4C, \h05, \h80,
                \hE6, \h00, \h40>>,
     nmi |-> \h8008, irq |-> \h800A]

\* 8000 LDA #$80 / STA $2000 / LDA #$02 / 8007 STA $4014 / JMP $8007
\* nmi, irq 800D RTI
DmaProgram ==
    [code |-> <<\hA9, \h80, \h8D, \h00, \h20, \hA9, \h02, \h8D, \h14, \h40,
                \h4C, \h07, \h80, \h40>>,
     nmi |-> \h800D, irq |-> \h800D]

\* 8000 LDA #$00 / STA $C000 / STA $C001 / STA $E001     latch 0, reload, enable
\* 800B LDA #$10 / STA $2006 / LDA #$00 / STA $2006      PPU address 0x1000
\* 8015 LDA $2007                                        a CHR read: A12 rises
\* 8018 CLI / 8019 NOP / JMP $8019
\* irq 801D STA $E000 / RTI        nmi 8020 RTI
IrqProgram ==
    [code |-> <<\hA9, \h00, \h8D, \h00, \hC0, \h8D, \h01, \hC0, \h8D, \h01, \hE0,
                \hA9, \h10, \h8D, \h06, \h20, \hA9, \h00, \h8D, \h06, \h20,
                \hAD, \h07, \h20, \h58, \hEA, \h4C, \h19, \h80,
                \h8D, \h00, \hE0, \h40>>,
     nmi |-> \h8020, irq |-> \h801D]

SysCartridges ==
    {[kind |-> 0, image |-> NmiProgram],
     [kind |-> 0, image |-> DmaProgram],
     [kind |-> 4, image |-> IrqProgram]}

InitSys ==
    /\ \E c \in SysCartridges : Holds(PowerOn(c.kind, c.image))
    /\ driver = [pc |-> "idle", cpuCyclesThisFrame |-> 0, ppuCycles |-> 0, i |-> 0]
    /\ last = NoOp
    /\ ppuSteps = 0

NextSys ==
    \/ FrameCallback
    \/ DriverCpuStep
    \/ DriverPpuDot
    \/ DriverIterationEnd

SpecSys == InitSys /\ [][NextSys]_vars

---------------------------------------------------------------------------
(* The CPU on its own: the bus and an NROM cartridge behind it, and the    *)
(* interrupt lines, the stall counter and reset driven from outside.       *)

\* 8000 CLI / NOP / SEI / NOP / JMP $8000      nmi 8007 RTI     irq 8008 RTI
RtiProgram ==
    [code |-> <<\h58, \hEA, \h78, \hEA, \h4C, \h00, \h80, \h40, \h40>>,
     nmi |-> \h8007, irq |-> \h8008]

\* 8000 CLI / 8001 NOP / JMP $8001      nmi 8005 RTI     irq 8006 CLI / NOP / RTI
CliProgram ==
    [code |-> <<\h58, \hEA, \h4C, \h01, \h80, \h40, \h58, \hEA, \h40>>,
     nmi |-> \h8005, irq |-> \h8006]

\* 8000 CLI / 8001 NOP / JMP $8001      nmi 8005 RTI
\* irq 8006 LDA #$00 / PHA / PLP / NOP / RTI
PlpProgram ==
    [code |-> <<\h58, \hEA, \h4C, \h01, \h80, \h40,
                \hA9, \h00, \h48, \h28, \hEA, \h40>>,
     nmi |-> \h8005, irq |-> \h8006]

\* 8000 LDX #$01 / TXS / CLI / 8004 NOP / JMP $8004    nmi 8008 RTI   irq 8009 RTI
WrapProgram ==
    [code |-> <<\hA2, \h01, \h9A, \h58, \hEA, \h4C, \h04, \h80, \h40, \h40>>,
     nmi |-> \h8008, irq |-> \h8009]

CpuPrograms == {RtiProgram, CliProgram, PlpProgram, WrapProgram}

\* The CPU cycles a run of the CPU on its own may take
MaxCpuCycles == 30

\* The longest stall outstanding after a request from outside
MaxStall == 2

\* The caller of the CPU notes
\*   returned   the sum of the values step() returned since reset,
\*   frames     the PC, SP and P each interrupt in service was taken at,
\*              the innermost last,
\*   trips      the interrupts returned from with RTI,
\*   max        the total cycle count at which it stops calling.
CpuCaller(max) == [returned |-> 0, frames |-> <<>>, trips |-> 0, max |-> max]

\* The next step() executes RTI
AtRti(m) ==
    /\ m.cpu.stallCyclesCount = 0 /\ ~m.cpu.nmiPending /\ ~IrqReady(m)
    /\ BusCpuRead(m, m.cpu.pc).val = \h40

InitCpu ==
    /\ \E image \in CpuPrograms : Holds(PowerOn(0, image))
    /\ driver = CpuCaller(MaxCpuCycles)
    /\ last = NoOp
    /\ ppuSteps = 0

CpuStep ==
    /\ cpu.totalCycles < driver.max
    /\ LET Took(s) ==
               /\ Install(s.m)
               /\ last' = Did("step", s.event, s.ret, FALSE)
               /\ driver' =
                    [returned |-> driver.returned + s.ret,
                     frames |->
                        IF s.event \in {"nmi", "irq"}
                        THEN Append(driver.frames,
                                    [pc |-> cpu.pc, sp |-> cpu.sp,
                                     status |-> cpu.status])
                        ELSE IF AtRti(Machine) /\ driver.frames # <<>>
                        THEN SubSeq(driver.frames, 1, Len(driver.frames) - 1)
                        ELSE driver.frames,
                     trips |->
                        IF AtRti(Machine) /\ driver.frames # <<>>
                        THEN driver.trips + 1 ELSE driver.trips,
                     max |-> driver.max]
       IN  Took(step(Machine))
    /\ UNCHANGED ppuSteps

TriggerNMI ==
    /\ cpu.totalCycles < driver.max
    /\ ~cpu.nmiPending
    /\ Install(triggerNMI(Machine))
    /\ last' = Did("triggerNMI", "none", 0, FALSE)
    /\ UNCHANGED <<driver, ppuSteps>>

TriggerIRQ ==
    /\ cpu.totalCycles < driver.max
    /\ ~cpu.irqPending
    /\ Install(triggerIRQ(Machine))
    /\ last' = Did("triggerIRQ", "none", 0, FALSE)
    /\ UNCHANGED <<driver, ppuSteps>>

ClearIRQ ==
    /\ cpu.totalCycles < driver.max
    /\ cpu.irqPending
    /\ Install(clearIRQ(Machine))
    /\ last' = Did("clearIRQ", "none", 0, FALSE)
    /\ UNCHANGED <<driver, ppuSteps>>

StallCycles ==
    /\ cpu.totalCycles < driver.max
    /\ \E n \in 1..(MaxStall - cpu.stallCyclesCount) :
          /\ Install(stallCycles(Machine, n))
          /\ last' = Did("stallCycles", "none", n, FALSE)
    /\ UNCHANGED <<driver, ppuSteps>>

\* Reset is pressed before the first interrupt has been taken (the stack is
\* still empty), so that a run after reset() is a run from power-on.
Reset ==
    /\ cpu.totalCycles < driver.max
    /\ ram = EmptyMap
    /\ Install(reset(Machine))
    /\ last' = Did("reset", "none", 0, FALSE)
    /\ driver' = CpuCaller(driver.max)
    /\ UNCHANGED ppuSteps

NextCpu ==
    \/ CpuStep
    \/ TriggerNMI
    \/ TriggerIRQ
    \/ ClearIRQ
    \/ StallCycles
    \/ Reset

SpecCpu == InitCpu /\ [][NextCpu]_vars

---------------------------------------------------------------------------
(* Properties of the CPU on its own (SpecCpu).                             *)

InterruptsDisabled == Test(cpu.status, InterruptDisable)

\* The event the next step() is to perform, from the state before it
ExpectedEvent ==
    IF cpu.stallCyclesCount > 0 THEN "stall"
    ELSE IF cpu.nmiPending THEN "nmi"
    ELSE IF cpu.irqPending /\ ~InterruptsDisabled THEN "irq"
    ELSE "instruction"

\* The byte of the stack page at stack pointer sp
StackByte(memory, sp) == MapGet(memory, \h0100 + (sp % 256))

\* The opcode at PC (the programs run from PRG-ROM at 0x8000)
OpcodeAtPc == OpcodeEntry(PrgRomByte(mapper.image, cpu.pc - \h8000))

\* C1: step() performs exactly one event, chosen in strict priority order:
\* a stall tick if the stall counter is above 0, otherwise NMI service if an
\* NMI is pending, otherwise IRQ service if an IRQ is pending and
\* InterruptDisable is clear, otherwise one instruction.  With NMI and IRQ
\* both pending and InterruptDisable clear the step services the NMI (PC
\* from 0xFFFA/0xFFFB), clears only the NMI request and returns 7.
C1_StepPriority ==
    [][last'.op = "step" =>
          /\ last'.event = ExpectedEvent
          /\ cpu'.totalCycles = cpu.totalCycles + last'.ret
          /\ ExpectedEvent = "stall" =>
                /\ cpu' = [cpu EXCEPT !.stallCyclesCount = @ - 1,
                                      !.totalCycles = @ + 1]
                /\ ram' = ram
                /\ last'.ret = 1
          /\ ExpectedEvent = "nmi" =>
                /\ cpu'.pc = mapper.image.nmi
                /\ ~cpu'.nmiPending
                /\ cpu'.irqPending = cpu.irqPending
                /\ last'.ret = 7
          /\ ExpectedEvent = "irq" =>
                /\ cpu'.pc = mapper.image.irq
                /\ cpu'.nmiPending = cpu.nmiPending
                /\ last'.ret = 7
          /\ ExpectedEvent = "instruction" =>
                /\ last'.ret = OpcodeAtPc.cycles
                /\ cpu'.nmiPending = cpu.nmiPending
                /\ cpu'.irqPending = cpu.irqPending
                /\ cpu'.stallCyclesCount = 0
      ]_vars

\* An NMI has just been serviced while an IRQ was pending with
\* InterruptDisable clear (the pushed status has bit 2 clear).
C1_Witness ==
    /\ last.op = "step"
    /\ last.event = "nmi"
    /\ cpu.pc = mapper.image.nmi
    /\ cpu.irqPending
    /\ ~cpu.nmiPending
    /\ ~Test(StackByte(ram, cpu.sp + 1), InterruptDisable)

\* C2: servicing an NMI or an IRQ writes PC high to 0x0100+SP, PC low to
\* 0x0100+((SP-1) & 0xFF) and (P | 0x20) & ~0x10 to 0x0100+((SP-2) & 0xFF),
\* leaves SP decreased by 3 modulo 256, sets InterruptDisable and leaves A,
\* X, Y and the other flags unchanged, loads PC from the NMI or the IRQ
\* vector, and returns 7 cycles.
C2_InterruptPush ==
    [][last'.op = "step" /\ ExpectedEvent \in {"nmi", "irq"} =>
          /\ StackByte(ram', cpu.sp) = cpu.pc \div 256
          /\ StackByte(ram', cpu.sp + 255) = cpu.pc % 256
          /\ StackByte(ram', cpu.sp + 254) =
                BitClear(BitOr(cpu.status, \h20), \h10)
          /\ cpu'.sp = (cpu.sp + 253) % 256
          /\ cpu'.status = BitOr(cpu.status, \h04)
          /\ cpu'.a = cpu.a
          /\ cpu'.x = cpu.x
          /\ cpu'.y = cpu.y
          /\ cpu'.pc = IF ExpectedEvent = "nmi" THEN mapper.image.nmi
                       ELSE mapper.image.irq
          /\ last'.ret = 7
      ]_vars

\* An IRQ has been serviced with SP = 1 before it: the status byte went to
\* 0x01FF and SP wrapped to 0xFE.
C2_Witness ==
    /\ last.op = "step"
    /\ last.event = "irq"
    /\ cpu.sp = \hFE
    /\ StackByte(ram, \h01) = \h80
    /\ StackByte(ram, \hFF) # 0

\* C3: while InterruptDisable is set a pending IRQ is never serviced: a
\* step with an IRQ pending, no NMI pending and no stall outstanding
\* executes the instruction at PC, and the IRQ request stays pending.
C3_IrqMasked ==
    [][last'.op = "step" /\ cpu.irqPending /\ InterruptsDisabled =>
          /\ last'.event # "irq"
          /\ cpu'.irqPending
          /\ (~cpu.nmiPending /\ cpu.stallCyclesCount = 0) =>
                /\ last'.event = "instruction"
                /\ last'.ret = OpcodeAtPc.cycles
                /\ cpu' = RunInstruction(Machine).m.cpu
      ]_vars

\* The NOP that follows SEI in RtiProgram has been executed with an IRQ
\* pending.
C3_Witness ==
    /\ mapper.image = RtiProgram
    /\ last.op = "step"
    /\ last.event = "instruction"
    /\ cpu.pc = \h8004
    /\ cpu.irqPending
    /\ InterruptsDisabled

\* C4: servicing an IRQ does not clear the request, which stays asserted
\* until clearIRQ() or reset(); so once InterruptDisable is clear again
\* (RTI, CLI or PLP in the handler) the next step that is not a stall tick,
\* with no NMI pending, services the IRQ again.
C4_IrqLevel ==
    [][/\ (cpu.irqPending /\ ~cpu'.irqPending) => last'.op \in {"clearIRQ", "reset"}
       /\ (/\ last'.op = "step"
           /\ cpu.irqPending
           /\ ~InterruptsDisabled
           /\ cpu.stallCyclesCount = 0
           /\ ~cpu.nmiPending) =>
                /\ last'.event = "irq"
                /\ cpu'.pc = mapper.image.irq
                /\ cpu'.irqPending
      ]_vars

\* The IRQ has been serviced again right after the CLI of the handler of
\* CliProgram: the return address pushed is the one after that CLI.
C4_Witness ==
    /\ mapper.image = CliProgram
    /\ last.op = "step"
    /\ last.event = "irq"
    /\ StackByte(ram, cpu.sp + 3) = \h80
    /\ StackByte(ram, cpu.sp + 2) = \h07
    /\ cpu.irqPending

---------------------------------------------------------------------------
(* The PPU on its own, as the PPU tests drive it: a PPU constructed over   *)
(* an NROM cartridge, stepped dot by dot, with PPUCTRL, PPUMASK and        *)
(* PPUSTATUS accessed through the register file and the NMI request taken  *)
(* by the caller (ppu.nmiPending = false).                                 *)

\* The dots a run of the PPU on its own may take: past scanline 261 of the
\* first frame
MaxDots == 89010

\* Registers are accessed during dots 0 .. MaxAccessDot of a scanline
MaxAccessDot == 3

CtrlValues == {\h00, \h80}

\* Rendering is switched on (background and sprites) before the first dot
MaskValues == {\h18}

ScrollValues == {\h1D}

\* The picture has sprites on scanline 239 only: they are found while
\* scanline 238 is drawn and drawn, with the sprite-0 test, on 239.
SpritesInView ==
    ppu.scanline = 238 \/ (ppu.scanline = 239 /\ ppu.cycle < 257)

PictureInputs == IF SpritesInView THEN PpuInputs(Machine) ELSE {NoInput}

InitPpu ==
    /\ Holds([cpu |-> NewCPU, ppu |-> NewPPU, ram |-> EmptyMap,
              mapper |-> NewMapper(0, NmiProgram, Horizontal, FALSE),
              controller1 |-> NewController, controller2 |-> NewController])
    /\ driver = [pc |-> "idle", cpuCyclesThisFrame |-> 0, ppuCycles |-> 0, i |-> 0]
    /\ last = NoOp
    /\ ppuSteps = 0

\* ppu.step(); before is what the step found
PpuTick ==
    /\ ppuSteps < MaxDots
    /\ \E inp \in PictureInputs :
          LET Stepped(m) ==
                  /\ Install(m)
                  /\ last' = [op |-> "tick", event |-> "none", ret |-> 0,
                              raised |-> m.ppu.nmiPending /\ ~ppu.nmiPending,
                              before |-> [status |-> ppu.ppuStatus,
                                          nmiPending |-> ppu.nmiPending]]
          IN  Stepped(PpuStep(Machine, inp))
    /\ ppuSteps' = ppuSteps + 1
    /\ UNCHANGED driver

PpuAccess == ppuSteps < MaxDots /\ ppu.cycle <= MaxAccessDot

\* ppu.writeRegister(0x2000, value)
PpuWriteCtrl ==
    /\ PpuAccess
    /\ \E value \in CtrlValues :
          LET Wrote(m) ==
                  /\ Install(m)
                  /\ last' = Did("writeCtrl", "none", value,
                                 m.ppu.nmiPending /\ ~ppu.nmiPending)
          IN  Wrote(writeRegister(Machine, \h2000, value))
    /\ UNCHANGED <<driver, ppuSteps>>

\* ppu.writeRegister(0x2001, value)
PpuWriteMask ==
    /\ ppuSteps = 0
    /\ ppu.ppuMask = 0
    /\ \E value \in MaskValues : Install(writeRegister(Machine, \h2001, value))
    /\ last' = Did("writeMask", "none", 0, FALSE)
    /\ UNCHANGED <<driver, ppuSteps>>

\* ppu.readRegister(0x2002); ret is the byte read, before is what the read
\* found
PpuReadStatus ==
    /\ PpuAccess
    /\ LET Read(r) ==
               /\ Install(r.m)
               /\ last' = [op |-> "readStatus", event |-> "none", ret |-> r.val,
                           raised |-> FALSE,
                           before |-> [status |-> ppu.ppuStatus, w |-> ppu.w]]
       IN  Read(readRegister(Machine, \h2002))
    /\ UNCHANGED <<driver, ppuSteps>>

\* ppu.writeRegister(0x2005, value), made on the last line of the vertical
\* blank
PpuWriteScroll ==
    /\ PpuAccess
    /\ ppu.scanline = 260
    /\ \E value \in ScrollValues :
          /\ Install(writeRegister(Machine, \h2005, value))
          /\ last' = Did("writeScroll", "none", value, FALSE)
    /\ UNCHANGED <<driver, ppuSteps>>

\* ppu.nmiPending = false, as the caller does once it has seen the request
PpuTakeNmi ==
    /\ ppuSteps < MaxDots
    /\ ppu.nmiPending
    /\ ppu' = [ppu EXCEPT !.nmiPending = FALSE]
    /\ last' = Did("takeNmi", "none", 0, FALSE)
    /\ UNCHANGED <<cpu, ram, mapper, controller1, controller2, driver, ppuSteps>>

NextPpu ==
    \/ PpuTick
    \/ PpuWriteCtrl
    \/ PpuWriteMask
    \/ PpuReadStatus
    \/ PpuWriteScroll
    \/ PpuTakeNmi

SpecPpu == InitPpu /\ [][NextPpu]_vars

---------------------------------------------------------------------------
(* Properties of the PPU on its own (SpecPpu).                             *)

\* The steps taken before the one that processes scanline 241, dot 1 of the
\* first frame (341 dots to a scanline)
FirstVBlankStep == 241 * 341 + 1

\* C5: stepping the PPU from power-on, PPUSTATUS bit 7 and frameComplete
\* are clear until the step that processes scanline 241 dot 1, which sets
\* both; that step raises nmiPending if and only if PPUCTRL bit 7 is set;
\* and the step that processes scanline 261 dot 1 clears PPUSTATUS bits 7,
\* 6 and 5 and clears nmiPending.
C5_VBlankTiming ==
    [][/\ ppuSteps <= FirstVBlankStep =>
             /\ ~Test(ppu.ppuStatus, \h80)
             /\ ~ppu.frameComplete
       /\ ppuSteps = FirstVBlankStep => ppu.scanline = 241 /\ ppu.cycle = 1
       /\ (last'.op = "tick" /\ ppu.scanline = 241 /\ ppu.cycle = 1) =>
             /\ Test(ppu'.ppuStatus, \h80)
             /\ ppu'.frameComplete
             /\ ~ppu.nmiPending
             /\ ppu'.nmiPending <=> Test(ppu.ppuCtrl, \h80)
       /\ (last'.op = "tick" /\ ppu.scanline = 261 /\ ppu.cycle = 1) =>
             /\ BitAnd(ppu'.ppuStatus, \hE0) = 0
             /\ ~ppu'.nmiPending
      ]_vars

\* Scanline 261 dot 1 has just been processed with VBlank, sprite-0 hit,
\* sprite overflow and the NMI request all set before it.
C5_Witness ==
    /\ last.op = "tick"
    /\ ppu.scanline = 261
    /\ ppu.cycle = 2
    /\ BitAnd(last.before.status, \hE0) = \hE0
    /\ last.before.nmiPending
    /\ ppu.ppuStatus = 0
    /\ ~ppu.nmiPending

\* C25: a read of 0x2002 returns (status & 0xE0) | (latch & 0x1F), clears
\* bit 7 of the status register and nothing else of it, and resets the
\* write toggle; v, t, fine X, the read buffer, the latch, nmiPending and
\* everything outside the PPU stay as they were, so the next read, made
\* straight after, returns bit 7 clear.
C25_ReadStatus ==
    [][last'.op = "readStatus" =>
          /\ last'.ret = BitOr(BitAnd(ppu.ppuStatus, \hE0), BitAnd(ppu.latch, \h1F))
          /\ ppu'.ppuStatus = ppu.ppuStatus % \h80
          /\ ~ppu'.w
          /\ ppu' = [ppu EXCEPT !.ppuStatus = ppu'.ppuStatus, !.w = FALSE]
          /\ UNCHANGED <<cpu, ram, mapper, controller1, controller2>>
          /\ last.op = "readStatus" => ~Test(last'.ret, \h80)
      ]_vars

\* PPUSTATUS has just been read with VBlank, sprite-0 hit and sprite
\* overflow set, after one write to 0x2005: the read returned the three
\* flags over the low bits of the value written, and only bit 7 and the
\* toggle changed.
C25_Witness ==
    /\ last.op = "readStatus"
    /\ last.before.status = \hE0
    /\ last.before.w
    /\ last.ret = \hFD
    /\ ppu.ppuStatus = \h60
    /\ ~ppu.w
    /\ ppu.x = 5
    /\ ppu.latch = \h1D

\* C6: a write to 0x2000 raises nmiPending (from false to true) if and only
\* if it changes PPUCTRL bit 7 from 0 to 1 while PPUSTATUS bit 7 is set: a
\* write that keeps bit 7 at 1, or one that sets it when a read of 0x2002
\* has cleared the VBlank flag, leaves nmiPending as it was.
C6_CtrlNmiEdge ==
    [][last'.op = "writeCtrl" =>
          /\ ppu'.ppuCtrl = last'.ret
          /\ ppu'.ppuStatus = ppu.ppuStatus
          /\ ppu.nmiPending => ppu'.nmiPending
          /\ ~ppu.nmiPending =>
                (ppu'.nmiPending <=>
                    /\ ~Test(ppu.ppuCtrl, \h80)
                    /\ Test(ppu'.ppuCtrl, \h80)
                    /\ Test(ppu.ppuStatus, \h80))
      ]_vars

\* NMI generation has just been switched on during VBlank and the request
\* was raised by the write.
C6_Witness ==
    /\ last.op = "writeCtrl"
    /\ last.raised
    /\ ppu.ppuCtrl = \h80
    /\ Test(ppu.ppuStatus, \h80)
    /\ ppu.nmiPending

---------------------------------------------------------------------------
(* Properties of the whole system (SpecSys).                               *)

\* C7: an NMI request of the PPU found after a dot of the for loop is
\* forwarded at that dot (cpu.nmiPending set, ppu.nmiPending cleared), so
\* none is outstanding in the PPU when cpu.step() is called; and a step
\* with the CPU's NMI request pending is a stall tick, which keeps the
\* request, while the stall counter is above 0, and the NMI service (PC
\* from the NMI vector) otherwise.
C7_NmiForwarded ==
    [][/\ driver.pc \in {"cpu", "idle"} => ~ppu.nmiPending
       /\ last'.op = "dot" =>
             /\ ~ppu'.nmiPending
             /\ last'.raised => cpu'.nmiPending
             /\ cpu.nmiPending => cpu'.nmiPending
       /\ (last'.op = "step" /\ cpu.nmiPending) =>
             IF cpu.stallCyclesCount > 0
             THEN last'.event = "stall" /\ cpu'.nmiPending
             ELSE /\ last'.event = "nmi"
                  /\ cpu'.pc = mapper.image.nmi
                  /\ ~cpu'.nmiPending
      ]_vars

\* The VBlank NMI of DmaProgram has been serviced at the first step after
\* the DMA stall: the return address pushed is that of the JMP after the
\* store to 0x4014.
C7_Witness ==
    /\ mapper.image = DmaProgram
    /\ last.op = "step"
    /\ last.event = "nmi"
    /\ cpu.pc = \h800D
    /\ StackByte(ram, cpu.sp + 3) = \h80
    /\ StackByte(ram, cpu.sp + 2) = \h0A

\* C8: in the wired system, when the MMC3 mapper's irqPending() is true and
\* InterruptDisable is clear, the step at the next instruction boundary (no
\* stall outstanding, no NMI pending) services an IRQ: PC is loaded from
\* 0xFFFE/0xFFFF.
C8_MapperIrqServiced ==
    [][(/\ last'.op = "step"
        /\ mapper.kind = 4
        /\ Mapper4IrqPending(mapper)
        /\ ~InterruptsDisabled
        /\ cpu.stallCyclesCount = 0
        /\ ~cpu.nmiPending) =>
             /\ last'.event = "irq"
             /\ cpu'.pc = mapper.image.irq
      ]_vars

\* The NOP after CLI of IrqProgram has been executed as an instruction while
\* the mapper's IRQ was asserted and InterruptDisable clear.
C8_Witness ==
    /\ mapper.image = IrqProgram
    /\ Mapper4IrqPending(mapper)
    /\ ~InterruptsDisabled
    /\ ~cpu.irqPending
    /\ last.op = "step"
    /\ last.event = "instruction"
    /\ cpu.pc = \h801A

\* C9: at every CPU event boundary the number of ppu.step() calls made
\* since reset is 3 times (CPU total cycles - 7), and inside the for loop
\* the calls still to make for the last CPU event fill the difference.
C9_DotsPerCycle ==
    /\ driver.pc \in {"cpu", "idle"} => ppuSteps = 3 * (cpu.totalCycles - 7)
    /\ driver.pc = "dots" =>
          /\ driver.i <= driver.ppuCycles
          /\ ppuSteps + (driver.ppuCycles - driver.i) = 3 * (cpu.totalCycles - 7)

\* The boundary after the INC of the NMI handler of NmiProgram: stores,
\* jumps, an NMI service and a read-modify-write have been counted.
C9_Witness ==
    /\ mapper.image = NmiProgram
    /\ driver.pc = "cpu"
    /\ MapGet(ram, 0) = 1
    /\ ppuSteps = 3 * (cpu.totalCycles - 7)
    /\ ppuSteps > FirstVBlankStep

---------------------------------------------------------------------------
(* The MMC3 mapper on its own, as the mapper tests drive it: register      *)
(* writes through cpuWrite and scanlineTick() calls.  driver is the        *)
(* caller's record of what it has done:                                    *)
(*   wrote   which of the latch, reload and enable writes are in effect,   *)
(*   ticked  scanlineTick() has been called,                               *)
(*   ticks   the scanlineTick() calls made since all three were in effect. *)
(* Before the first tick the latch is written with any byte, after it with *)
(* one of LateLatchValues, and ticks outside the armed count are made with *)
(* the latch at one of those; the bank select and mirroring registers are  *)
(* rewritten with the values they hold.  raised in last is irqPending() as *)
(* it was before the write.                                                *)

\* The ticks counted after the counter has been armed
MaxTicks == 257

LateLatchValues == {0, 1, 255}

LatchAddresses == {\hC000, \hDFFE}

BankAddresses == {\h8000, \hA000, \hBFFE}

ReloadAddresses == {\hC001, \hDFFF}

DisableAddresses == {\hE000, \hFFFE}

EnableAddresses == {\hE001, \hFFFF}

Armed == driver.wrote = {"latch", "reload", "enable"}

InitMmc3 ==
    /\ Holds([cpu |-> NewCPU, ppu |-> NewPPU, ram |-> EmptyMap,
              mapper |-> NewMapper(4, IrqProgram, Horizontal, FALSE),
              controller1 |-> NewController, controller2 |-> NewController])
    /\ driver = [pc |-> "mapper", wrote |-> {}, ticked |-> FALSE, ticks |-> 0]
    /\ last = NoOp
    /\ ppuSteps = 0

\* mapper.cpuWrite(address, value), which puts the writes done in effect
Mmc3Write(address, value, done, operation) ==
    /\ mapper' = MapperCpuWrite(mapper, address, value)
    /\ driver' = [driver EXCEPT !.wrote = IF driver.ticked THEN {} ELSE done,
                                !.ticks = 0]
    /\ last' = Did(operation, "none", value, Mapper4IrqPending(mapper))
    /\ UNCHANGED <<cpu, ppu, ram, controller1, controller2, ppuSteps>>

Mmc3WriteLatch ==
    \E address \in LatchAddresses,
       value \in (IF driver.ticked THEN LateLatchValues ELSE 0..255) :
        Mmc3Write(address, value, driver.wrote \cup {"latch"}, "latch")

Mmc3WriteReload ==
    \E address \in ReloadAddresses :
        Mmc3Write(address, 0, driver.wrote \cup {"reload"}, "reload")

\* bank select 0 and horizontal mirroring, as at power-on
Mmc3WriteBank ==
    \E address \in BankAddresses :
        Mmc3Write(address, IF address < \hA000 THEN 0 ELSE 1, driver.wrote, "bank")

Mmc3WriteEnable ==
    \E address \in EnableAddresses :
        Mmc3Write(address, 0, driver.wrote \cup {"enable"}, "enable")

Mmc3WriteDisable ==
    \E address \in DisableAddresses :
        Mmc3Write(address, 0, driver.wrote \ {"enable"}, "disable")

\* mapper.scanlineTick()
Mmc3Tick ==
    /\ driver.ticks < MaxTicks
    /\ Armed \/ mapper.irqLatch \in LateLatchValues
    /\ mapper' = MapperScanlineTick(mapper)
    /\ driver' = [driver EXCEPT !.ticked = TRUE,
                                !.ticks = IF Armed THEN @ + 1 ELSE 0]
    /\ last' = Did("scanlineTick", "none", 0, FALSE)
    /\ UNCHANGED <<cpu, ppu, ram, controller1, controller2, ppuSteps>>

NextMmc3 ==
    \/ Mmc3WriteLatch
    \/ Mmc3WriteReload
    \/ Mmc3WriteEnable
    \/ Mmc3WriteDisable
    \/ Mmc3WriteBank
    \/ Mmc3Tick

SpecMmc3 == InitMmc3 /\ [][NextMmc3]_vars

---------------------------------------------------------------------------
(* Properties of the MMC3 mapper on its own (SpecMmc3).                    *)

\* C10: with IRQ-active false, the latch set to L, a reload requested and
\* the IRQ enabled, irqPending() is false after each of the first L
\* scanline ticks that follow and true after the (L+1)-th, for every L in
\* 0..255; the first tick reloads the counter to L and each of the next L
\* decrements it.
C10_IrqAfterLatchPlusOne ==
    Armed =>
        /\ mapper.irqLatch \in 0..255
        /\ driver.ticks <= mapper.irqLatch => ~Mapper4IrqPending(mapper)
        /\ driver.ticks > mapper.irqLatch => Mapper4IrqPending(mapper)
        /\ (driver.ticks >= 1 /\ driver.ticks <= mapper.irqLatch + 1) =>
              mapper.irqCounter = mapper.irqLatch - (driver.ticks - 1)

\* The IRQ has just been asserted by the 256th tick after arming with the
\* latch at 255.
C10_Witness ==
    /\ Armed
    /\ mapper.irqLatch = 255
    /\ driver.ticks = 256
    /\ last.op = "scanlineTick"
    /\ Mapper4IrqPending(mapper)

\* C11: after a write to an even address in 0xE000..0xFFFF irqPending() is
\* false, and while the IRQ is disabled no scanline tick and no register
\* write other than one to an odd address in 0xE000..0xFFFF enables it or
\* makes irqPending() true: the IRQ is never active while it is disabled.
C11_IrqDisabled ==
    [][/\ ~mapper.irqEnabled => ~Mapper4IrqPending(mapper)
       /\ last'.op = "disable" =>
             /\ ~mapper'.irqEnabled
             /\ ~Mapper4IrqPending(mapper')
       /\ (~mapper.irqEnabled /\ last'.op # "enable") =>
             /\ ~mapper'.irqEnabled
             /\ ~Mapper4IrqPending(mapper')
      ]_vars

\* An asserted IRQ has just been acknowledged by the disabling write.
C11_Witness ==
    /\ last.op = "disable"
    /\ last.raised
    /\ driver.ticked
    /\ ~mapper.irqEnabled
    /\ ~Mapper4IrqPending(mapper)

---------------------------------------------------------------------------
(* Properties of the OAM DMA in the whole system (SpecSys).                *)

\* The instruction at PC is STA $4014
StoreToDmaAtPc ==
    /\ PrgRomByte(mapper.image, cpu.pc - \h8000) = \h8D
    /\ PrgRomByte(mapper.image, cpu.pc - \h8000 + 1) = \h14
    /\ PrgRomByte(mapper.image, cpu.pc - \h8000 + 2) = \h40

\* The cycle count of DmaProgram when its first store to 0x4014 is done:
\* reset, LDA #, STA abs, LDA #, STA abs
FirstDmaDone == 7 + 2 + 4 + 2 + 4

\* C12: the step that executes a store to 0x4014 copies the whole page
\* into OAM and leaves the stall counter at 513 (one callback, onto a
\* counter that was 0); a step with the stall counter above 0 returns 1
\* and changes nothing but the stall counter (down by 1) and the cycle
\* counter (up by 1); a step with the stall counter at 0 is not a stall
\* tick.  For the first DMA of DmaProgram the stall counter is 513 less the
\* cycles since the store, so exactly 513 steps are stall ticks.
C12_DmaStall ==
    [][/\ (last'.op = "step" /\ last'.event = "instruction" /\ StoreToDmaAtPc) =>
             /\ cpu.stallCyclesCount = 0
             /\ cpu'.stallCyclesCount = DMA_STALL
             /\ last'.ret = 4
             /\ ppu'.oamAddr = ppu.oamAddr
             /\ \A i \in 0..255 :
                   MapGet(ppu'.oam, (ppu.oamAddr + i) % 256)
                       = BusCpuRead(Machine, cpu.a * 256 + i).val
       /\ (last'.op = "step" /\ cpu.stallCyclesCount > 0) =>
             /\ last'.event = "stall"
             /\ last'.ret = 1
             /\ cpu' = [cpu EXCEPT !.stallCyclesCount = @ - 1,
                                   !.totalCycles = @ + 1]
             /\ UNCHANGED <<ppu, ram, mapper, controller1, controller2>>
       /\ (last'.op = "step" /\ cpu.stallCyclesCount = 0) =>
             last'.event # "stall"
       /\ (mapper.image = DmaProgram
           /\ cpu.totalCycles \in FirstDmaDone .. FirstDmaDone + DMA_STALL) =>
             cpu.stallCyclesCount = FirstDmaDone + DMA_STALL - cpu.totalCycles
      ]_vars

\* The JMP after the first store to 0x4014 of DmaProgram has run: the 513
\* steps after the store were stall ticks, this one is an instruction.
C12_Witness ==
    /\ mapper.image = DmaProgram
    /\ last.op = "step"
    /\ last.event = "instruction"
    /\ cpu.pc = \h8007
    /\ cpu.totalCycles = FirstDmaDone + DMA_STALL + 3
    /\ cpu.stallCyclesCount = 0


---------------------------------------------------------------------------
(* The bus and the PPU as the OAM DMA tests drive them: bytes stored into  *)
(* RAM, OAMADDR written through 0x2003, a block handed to oamDmaWrite      *)
(* directly, and a page written to 0x4014.  driver.data is the block last  *)
(* handed to oamDmaWrite directly.                                         *)

\* The writes to 0x4014 a run may make (each adds to the stall counter)
MaxDmas == 1

\* The stores into RAM page 2: its first byte and its last
Pokes ==
    {[address |-> \h0200, value |-> \h11], [address |-> \h0200, value |-> \h00],
     [address |-> \h02FF, value |-> \hFF]}

OamAddrValues == {\h00, \h04, \hFF}

\* RAM page 2, its mirror at 0x0A00, and the first page of PRG-ROM
DmaPages == {\h02, \h0A, \h80}

\* The block of the test (data[i] = i) and its reverse
DmaBlocks == {[i \in 0..255 |-> i], [i \in 0..255 |-> 255 - i]}

InitOam ==
    /\ Holds(PowerOn(0, DmaProgram))
    /\ driver = [data |-> [i \in 0..255 |-> 0]]
    /\ last = NoOp
    /\ ppuSteps = 0

OamPoke ==
    /\ \E poke \in Pokes :
          /\ Install(BusCpuWrite(Machine, poke.address, poke.value))
          /\ last' = Did("poke", "none", poke.value, FALSE)
    /\ UNCHANGED <<driver, ppuSteps>>

OamSetAddr ==
    /\ \E value \in OamAddrValues :
          /\ Install(BusCpuWrite(Machine, \h2003, value))
          /\ last' = Did("oamAddr", "none", value, FALSE)
    /\ UNCHANGED <<driver, ppuSteps>>

OamDirect ==
    /\ \E data \in DmaBlocks :
          /\ Install(oamDmaWrite(Machine, data))
          /\ driver' = [driver EXCEPT !.data = data]
    /\ last' = Did("oamDmaWrite", "none", 0, FALSE)
    /\ UNCHANGED ppuSteps

OamBusDma ==
    /\ cpu.stallCyclesCount < MaxDmas * DMA_STALL
    /\ \E page \in DmaPages :
          /\ Install(BusCpuWrite(Machine, \h4014, page))
          /\ last' = Did("dma", "none", page, FALSE)
    /\ UNCHANGED <<driver, ppuSteps>>

NextOam ==
    \/ OamPoke
    \/ OamSetAddr
    \/ OamDirect
    \/ OamBusDma

SpecOam == InitOam /\ [][NextOam]_vars

\* C13: oamDmaWrite(d) with OAMADDR = a leaves OAM[(a + i) & 0xFF] = d[i]
\* for every i in 0..255 and leaves OAMADDR at a; a write of page p to
\* 0x4014 does the same with d[i] the byte the CPU bus reads at
\* (p << 8) + i.
C13_OamDmaCopy ==
    [][/\ last'.op = "oamDmaWrite" =>
             /\ ppu'.oamAddr = ppu.oamAddr
             /\ \A i \in 0..255 :
                   MapGet(ppu'.oam, (ppu.oamAddr + i) % 256) = driver'.data[i]
       /\ last'.op = "dma" =>
             /\ ppu'.oamAddr = ppu.oamAddr
             /\ \A i \in 0..255 :
                   MapGet(ppu'.oam, (ppu.oamAddr + i) % 256)
                       = BusCpuRead(Machine, last'.ret * 256 + i).val
      ]_vars

\* A DMA from the RAM mirror at 0x0A00 with OAMADDR = 0xFF: the copy wraps,
\* the first byte of the page lands in OAM[0xFF] and the last in OAM[0xFE].
C13_Witness ==
    /\ last.op = "dma"
    /\ last.ret = \h0A
    /\ ppu.oamAddr = \hFF
    /\ MapGet(ram, \h0200) = \h11
    /\ MapGet(ram, \h02FF) = \hFF
    /\ MapGet(ppu.oam, \hFF) = \h11
    /\ MapGet(ppu.oam, \hFE) = \hFF
    /\ MapGet(ppu.oam, 0) = 0


---------------------------------------------------------------------------
(* Stall cycles of the CPU on its own (SpecCpu).                           *)

\* C14: a step with the stall counter above 0 returns 1 and changes
\* nothing but the stall counter (down by 1) and the cycle counter (up by
\* 1): the registers, memory and the pending NMI and IRQ requests stay as
\* they are; a step with the stall counter at 0 goes through the normal
\* event selection.  So a stall counter of c holds up exactly c steps.
\* stallCycles(n) adds n to the stall counter and changes nothing else.
C14_StallFrame ==
    [][/\ (last'.op = "step" /\ cpu.stallCyclesCount > 0) =>
             /\ last'.event = "stall"
             /\ last'.ret = 1
             /\ cpu' = [cpu EXCEPT !.stallCyclesCount = @ - 1,
                                   !.totalCycles = @ + 1]
             /\ UNCHANGED <<ppu, ram, mapper, controller1, controller2>>
       /\ (last'.op = "step" /\ cpu.stallCyclesCount = 0) =>
             /\ last'.event # "stall"
             /\ last'.event = ExpectedEvent
       /\ last'.op = "stallCycles" =>
             /\ last'.ret > 0
             /\ cpu' = [cpu EXCEPT !.stallCyclesCount = @ + last'.ret]
             /\ UNCHANGED <<ppu, ram, mapper, controller1, controller2>>
      ]_vars

\* stallCycles(1) has been called with one stall cycle still outstanding,
\* after a stall tick and with an NMI and an IRQ pending.
C14_Witness ==
    /\ last.op = "stallCycles"
    /\ last.ret = 1
    /\ cpu.stallCyclesCount = 2
    /\ cpu.totalCycles > 7
    /\ cpu.nmiPending
    /\ cpu.irqPending


---------------------------------------------------------------------------
(* A controller on its own, as the controller tests drive it: setButton,   *)
(* write and read on controller1.  driver is the caller's record:          *)
(*   strobed  a write with bit 0 set has been made                         *)
(*   latched  the buttons as they were at the last reload of the shift     *)
(*            register: the last write with bit 0 set, or the last read    *)
(*            made while the strobe was high                               *)
(*   reads    the reads made since the strobe last rose or fell            *)
(* Any button is set before the first strobe, LateButtons after it.        *)

\* The reads made after the strobe rises or falls
MaxReads == 10

LateButtons == {0, 7}

WriteValues == {\h00, \h01, \hFE, \hFF}

InitPad ==
    /\ Holds(PowerOn(0, NmiProgram))
    /\ driver = [strobed |-> FALSE, latched |-> controller1.buttons, reads |-> 0]
    /\ last = NoOp
    /\ ppuSteps = 0

PadSetButton ==
    /\ \E button \in (IF driver.strobed THEN LateButtons ELSE 0..7),
          pressed \in BOOLEAN :
          controller1' = setButton(controller1, button, pressed)
    /\ last' = Did("setButton", "none", 0, FALSE)
    /\ UNCHANGED <<cpu, ppu, ram, mapper, controller2, driver, ppuSteps>>

PadWrite ==
    /\ \E value \in WriteValues :
          /\ controller1' = ControllerWrite(controller1, value)
          /\ driver' = IF value % 2 = 1
                       THEN [strobed |-> TRUE, latched |-> controller1.buttons,
                             reads |-> 0]
                       ELSE IF controller1.strobe
                       THEN [driver EXCEPT !.reads = 0]
                       ELSE driver
          /\ last' = Did("write", "none", value % 2, FALSE)
    /\ UNCHANGED <<cpu, ppu, ram, mapper, controller2, ppuSteps>>

PadRead ==
    /\ driver.reads < MaxReads
    /\ LET Got(r) ==
               /\ controller1' = r.c
               /\ last' = Did("read", "none", r.val, FALSE)
       IN  Got(ControllerRead(controller1))
    /\ driver' = [driver EXCEPT
                     !.latched = IF controller1.strobe
                                 THEN controller1.buttons ELSE @,
                     !.reads = @ + 1]
    /\ UNCHANGED <<cpu, ppu, ram, mapper, controller2, ppuSteps>>

NextPad ==
    \/ PadSetButton
    \/ PadWrite
    \/ PadRead

SpecPad == InitPad /\ [][NextPad]_vars

\* 1 for a pressed button, 0 for a released one
Pressed(buttons, button) == IF buttons[button] THEN 1 ELSE 0

\* C15: once the strobe has been written high and then low, with S the
\* buttons as latched by the strobe, the first eight reads return the bits
\* of S in the order A, B, Select, Start, Up, Down, Left, Right (buttons 0
\* to 7) and every later read returns 1; setButton and writes with bit 0
\* clear made while the strobe is low change neither the latched bits nor
\* the position in the sequence.
C15_SerialRead ==
    [][/\ (last'.op = "read" /\ driver.strobed /\ ~controller1.strobe) =>
             /\ last'.ret = IF driver.reads < 8
                             THEN Pressed(driver.latched, driver.reads) ELSE 1
             /\ ~controller1'.strobe
       /\ (driver.strobed /\ ~controller1.strobe
           /\ (last'.op = "setButton" \/ (last'.op = "write" /\ last'.ret = 0))) =>
             /\ controller1'.shiftRegister = controller1.shiftRegister
             /\ ~controller1'.strobe
             /\ driver' = driver
      ]_vars

\* The ninth read after a strobe that latched A, Select, Up and Left
\* pressed: the eighth read returned 0 for Right although Right has been
\* pressed, and A released, since the strobe fell.
C15_Witness ==
    /\ last.op = "read"
    /\ last.ret = 1
    /\ driver.reads = 9
    /\ ~controller1.strobe
    /\ driver.latched = [i \in 0..7 |-> i \in {0, 2, 4, 6}]
    /\ controller1.buttons = [i \in 0..7 |-> i \in {2, 4, 6, 7}]

\* C16: a read made while the strobe is high returns button A as it is at
\* that read and leaves the strobe high and the shift register at the
\* current buttons (position 0), whatever reads and setButton calls came
\* before; the first read after the strobe falls returns button A as last
\* latched.
C16_StrobeHigh ==
    [][/\ (last'.op = "read" /\ controller1.strobe) =>
             /\ last'.ret = Pressed(controller1.buttons, 0)
             /\ controller1'.strobe
             /\ controller1'.buttons = controller1.buttons
             /\ \A i \in 0..7 :
                   ShiftRight(controller1'.shiftRegister, i) % 2
                       = Pressed(controller1.buttons, i)
       /\ (last'.op = "read" /\ driver.strobed /\ ~controller1.strobe
           /\ driver.reads = 0) =>
             last'.ret = Pressed(driver.latched, 0)
      ]_vars

\* The last of MaxReads reads made while the strobe is high returned A
\* pressed, with Right pressed as well and Select pressed before the strobe.
C16_Witness ==
    /\ last.op = "read"
    /\ last.ret = 1
    /\ controller1.strobe
    /\ driver.reads = MaxReads
    /\ controller1.buttons = [i \in 0..7 |-> i \in {0, 2, 7}]
    /\ controller1.shiftRegister = \h85


---------------------------------------------------------------------------
(* The MMC1 mapper on its own, as the mapper tests drive it: writes to     *)
(* 0x8000-0xFFFF through cpuWrite.  As the serialWrite helper of the tests *)
(* does, the caller sends a 5-bit value bit by bit, lowest first; the      *)
(* first four writes go to any address, the fifth to the register the      *)
(* value is meant for.  driver is the caller's record:                     *)
(*   value   the value being sent                                          *)
(*   target  the register it is meant for (0 control, 1 CHR bank 0,        *)
(*           2 CHR bank 1, 3 PRG bank)                                     *)
(*   i       the bits of it written since the last commit or reset         *)
(* raised in last tells, for a write with bit 7 set, that bits had been    *)
(* shifted in when it was made.                                            *)

\* The numbers of 16 KiB PRG banks of the cartridges
PrgBankCounts == {4, 16}

\* One address in each register window, and the ends of the range
WriteAddresses == {\h8000, \hBFFF, \hC000, \hE000, \hFFFF}

\* PRG modes 0 to 3 with mirroring 0, and two values with bits 0 and 4 set
SerialValues == {\h00, \h04, \h08, \h0C, \h05, \h1F}

ChrValues == {\h00, \h1F}

\* Bits 1 to 6 of a written byte: the serial port does not look at them
JunkBits == {\h00, \h7E}

ResetValues == {\h80, \hFF}

Plans ==
    {[target |-> 0, value |-> v] : v \in SerialValues}
        \cup {[target |-> 3, value |-> v] : v \in SerialValues}
        \cup {[target |-> g, value |-> v] : g \in {1, 2}, v \in ChrValues}

Idle == [target |-> 0, value |-> 0, i |-> 0]

InitMmc1 ==
    /\ \E n \in PrgBankCounts :
          Holds([PowerOn(0, NmiProgram) EXCEPT
                    !.mapper = NewMapper1(n, 32, Horizontal)])
    /\ driver = Idle
    /\ last = NoOp
    /\ ppuSteps = 0

Mmc1SerialWrite ==
    /\ \E plan \in (IF driver.i = 0 THEN Plans
                     ELSE {[target |-> driver.target, value |-> driver.value]}),
          address \in WriteAddresses, junk \in JunkBits :
          /\ driver.i = 4 => ShiftRight(address, 13) % 4 = plan.target
          /\ mapper' = Mapper1CpuWrite(mapper, address,
                                       (ShiftRight(plan.value, driver.i) % 2) + junk)
          /\ driver' = IF driver.i = 4 THEN Idle
                       ELSE [target |-> plan.target, value |-> plan.value,
                             i |-> driver.i + 1]
          /\ last' = Did("write", "none", address, FALSE)
    /\ UNCHANGED <<cpu, ppu, ram, controller1, controller2, ppuSteps>>

Mmc1Reset ==
    /\ \E address \in WriteAddresses, value \in ResetValues :
          /\ mapper' = Mapper1CpuWrite(mapper, address, value)
          /\ last' = Did("reset", "none", address, mapper.shiftCount # 0)
    /\ driver' = Idle
    /\ UNCHANGED <<cpu, ppu, ram, controller1, controller2, ppuSteps>>

NextMmc1 ==
    \/ Mmc1SerialWrite
    \/ Mmc1Reset

SpecMmc1 == InitMmc1 /\ [][NextMmc1]_vars

\* The four internal registers
Registers(mp) == <<mp.regControl, mp.regChrBank0, mp.regChrBank1, mp.regPrgBank>>

\* The bank and mirroring mapping
Mapping(mp) ==
    <<mp.prgOffset0, mp.prgOffset1, mp.chrOffset0, mp.chrOffset1, mp.mirrorMode>>

\* The bank read in the lower window (0x8000-0xBFFF): the same at both ends
LowBank(mp, bank) ==
    /\ Mapper1CpuRead(mp, \h8000) = bank
    /\ Mapper1CpuRead(mp, \hBFFF) = bank

\* The bank read in the upper window (0xC000-0xFFFF)
HighBank(mp, bank) ==
    /\ Mapper1CpuRead(mp, \hC000) = bank
    /\ Mapper1CpuRead(mp, \hFFFF) = bank

PrgMode(mp) == ShiftRight(mp.regControl, 2) % 4

\* C17: a write with bit 7 clear that is not the fifth since the last
\* commit or reset changes neither the registers nor the mapping; the
\* fifth stores the value whose bit k is bit 0 of write k + 1 in the
\* register selected by bits 13 and 14 of its own address, leaves the
\* other three registers as they are, and empties the shift register.
C17_SerialCommit ==
    [][last'.op = "write" =>
          IF driver.i < 4
          THEN /\ Registers(mapper') = Registers(mapper)
               /\ Mapping(mapper') = Mapping(mapper)
               /\ mapper'.shiftCount = driver.i + 1
          ELSE /\ mapper'.shiftCount = 0
               /\ mapper'.shiftRegister = 0
               /\ \A g \in 0..3 :
                     Registers(mapper')[g + 1] =
                         IF g = ShiftRight(last'.ret, 13) % 4
                         THEN driver.value ELSE Registers(mapper)[g + 1]
      ]_vars

\* 0x1F has been committed to CHR bank 1 by a fifth write to 0xC000, the
\* control register holding 0x08 and the PRG bank register 0x05.
C17_Witness ==
    /\ last.op = "write"
    /\ last.ret = \hC000
    /\ driver = Idle
    /\ Registers(mapper) = <<\h08, \h00, \h1F, \h05>>
    /\ mapper.shiftCount = 0

\* C18: a write with bit 7 set empties the shift register, ORs the control
\* register with 0x0C, which fixes the last bank at 0xC000, and leaves the
\* CHR bank registers, the PRG bank register and the mirroring mode as
\* they are; the write that follows it commits nothing.
C18_Reset ==
    [][/\ last'.op = "reset" =>
             /\ mapper'.shiftCount = 0
             /\ mapper'.shiftRegister = 0
             /\ mapper'.regControl = BitOr(mapper.regControl, \h0C)
             /\ mapper'.regChrBank0 = mapper.regChrBank0
             /\ mapper'.regChrBank1 = mapper.regChrBank1
             /\ mapper'.regPrgBank = mapper.regPrgBank
             /\ mapper'.mirrorMode = mapper.mirrorMode
             /\ HighBank(mapper', mapper.prgBankCount16 - 1)
       /\ (last.op = "reset" /\ last'.op = "write") =>
             /\ Registers(mapper') = Registers(mapper)
             /\ mapper'.shiftCount = 1
      ]_vars

\* A write with bit 7 set made with bits shifted in, the control register
\* at 0x05 (PRG mode 1) and the PRG bank register at 0x04: the control
\* register is 0x0D.
C18_Witness ==
    /\ last.op = "reset"
    /\ last.raised
    /\ mapper.shiftCount = 0
    /\ Registers(mapper) = <<\h0D, \h00, \h00, \h04>>
    /\ mapper.prgBankCount16 = 16
    /\ HighBank(mapper, 15)

\* C19: with n 16 KiB banks, in PRG mode 3 (the mode at power-on)
\* 0xC000-0xFFFF reads bank n - 1 and 0x8000-0xBFFF reads bank
\* (PRG register & 0x0F) mod n; in PRG mode 2, 0x8000-0xBFFF reads bank 0
\* and 0xC000-0xFFFF reads bank (PRG register & 0x0F) mod n.
C19_PrgFixedBank ==
    /\ PrgMode(mapper) = 3 =>
          /\ HighBank(mapper, mapper.prgBankCount16 - 1)
          /\ LowBank(mapper, (mapper.regPrgBank % 16) % mapper.prgBankCount16)
    /\ PrgMode(mapper) = 2 =>
          /\ LowBank(mapper, 0)
          /\ HighBank(mapper, (mapper.regPrgBank % 16) % mapper.prgBankCount16)
    /\ last = NoOp => PrgMode(mapper) = 3

\* PRG mode 2 with 4 banks and the PRG bank register at 0x1F: 0xC000 reads
\* bank 15 mod 4.
C19_Witness ==
    /\ last.op = "write"
    /\ PrgMode(mapper) = 2
    /\ mapper.regPrgBank = \h1F
    /\ mapper.prgBankCount16 = 4
    /\ LowBank(mapper, 0)
    /\ HighBank(mapper, 3)

\* C20: in PRG mode 0 or 1, with r the low four bits of the PRG bank
\* register, 0x8000-0xBFFF reads 16 KiB bank 2 * (r >> 1) and
\* 0xC000-0xFFFF reads 16 KiB bank 2 * (r >> 1) + 1, modulo the number of
\* banks.
C20_Prg32K ==
    PrgMode(mapper) \in {0, 1} =>
        /\ LowBank(mapper, (2 * ShiftRight(mapper.regPrgBank % 16, 1))
                               % mapper.prgBankCount16)
        /\ HighBank(mapper, (2 * ShiftRight(mapper.regPrgBank % 16, 1) + 1)
                                % mapper.prgBankCount16)

\* PRG mode 0 with 16 banks and the PRG bank register at 4.
C20_Witness ==
    /\ PrgMode(mapper) = 0
    /\ mapper.regPrgBank = 4
    /\ mapper.prgBankCount16 = 16
    /\ last.op = "write"

---------------------------------------------------------------------------
(* The MMC3 mapper's banking and PRG-RAM, as the mapper tests drive them:  *)
(* writes through cpuWrite over a PRG-ROM whose 8 KiB banks hold their     *)
(* bank numbers.  driver is the caller's record of its writes:             *)
(*   selected  the value of the latest even write to 0x8000-0x9FFF         *)
(*   regs      regs[n + 1] is the value of the latest odd write made there *)
(*             while bits 0-2 of selected were n                           *)

\* fillPrgRom(size) with banks of 8 KiB
FilledImage == [code |-> <<>>, nmi |-> 0, irq |-> 0, fill |-> \h2000]

\* Registers 0, 6 and 7, both PRG modes, and CHR inversion
BankSelectValues == {\h00, \h06, \h07, \h46, \h47, \h86}

BankDataValues == {\h01, \h05, \hFF}

ProtectValues == {\h00, \h7F, \h80, \hFF}

PrgRamAddresses == {\h6000, \h7FFF}

PrgRamValues == {\h11, \h22}

InitMmc3Banks ==
    /\ Holds([cpu |-> NewCPU, ppu |-> NewPPU, ram |-> EmptyMap,
              mapper |-> NewMapper(4, FilledImage, Vertical, FALSE),
              controller1 |-> NewController, controller2 |-> NewController])
    /\ driver = [selected |-> 0, regs |-> <<0, 0, 0, 0, 0, 0, 0, 0>>]
    /\ last = NoOp
    /\ ppuSteps = 0

Mmc3Select ==
    /\ \E address \in {\h8000, \h9FFE}, value \in BankSelectValues :
          /\ mapper' = MapperCpuWrite(mapper, address, value)
          /\ driver' = [driver EXCEPT !.selected = value]
          /\ last' = Did("select", "none", value, FALSE)
    /\ UNCHANGED <<cpu, ppu, ram, controller1, controller2, ppuSteps>>

Mmc3Data ==
    /\ \E address \in {\h8001, \h9FFF}, value \in BankDataValues :
          /\ mapper' = MapperCpuWrite(mapper, address, value)
          /\ driver' = [driver EXCEPT !.regs[(driver.selected % 8) + 1] = value]
          /\ last' = Did("data", "none", value, FALSE)
    /\ UNCHANGED <<cpu, ppu, ram, controller1, controller2, ppuSteps>>

Mmc3Mirror ==
    /\ \E value \in {0, 1} :
          /\ mapper' = MapperCpuWrite(mapper, \hA000, value)
          /\ last' = Did("mirror", "none", value, FALSE)
    /\ UNCHANGED <<cpu, ppu, ram, controller1, controller2, driver, ppuSteps>>

Mmc3Protect ==
    /\ \E address \in {\hA001, \hBFFF}, value \in ProtectValues :
          /\ mapper' = MapperCpuWrite(mapper, address, value)
          /\ last' = Did("protect", "none", value, FALSE)
    /\ UNCHANGED <<cpu, ppu, ram, controller1, controller2, driver, ppuSteps>>

Mmc3RamWrite ==
    /\ \E address \in PrgRamAddresses, value \in PrgRamValues :
          /\ mapper' = MapperCpuWrite(mapper, address, value)
          /\ last' = Did("ramWrite", "none", value, FALSE)
    /\ UNCHANGED <<cpu, ppu, ram, controller1, controller2, driver, ppuSteps>>

NextMmc3Banks ==
    \/ Mmc3Select
    \/ Mmc3Data
    \/ Mmc3Mirror
    \/ Mmc3Protect
    \/ Mmc3RamWrite

SpecMmc3Banks == InitMmc3Banks /\ [][NextMmc3Banks]_vars

\* Both ends of the 8 KiB window at base read bank
WindowReads(base, bank) ==
    /\ MapperCpuRead(mapper, base) = bank
    /\ MapperCpuRead(mapper, base + \h1FFF) = bank

\* C21: with n 8 KiB PRG banks, 0xE000-0xFFFF reads bank n - 1 and
\* 0xA000-0xBFFF reads bank R7 mod n; with bit 6 of the latest bank-select
\* write clear 0x8000-0x9FFF reads bank R6 mod n and 0xC000-0xDFFF reads
\* bank n - 2, with it set the two are swapped; the bank registers are
\* what the odd writes to 0x8000-0x9FFF stored, each in the register
\* numbered by bits 0-2 of the latest bank-select write.
C21_Mmc3PrgBanks ==
    /\ mapper.bankRegisters = driver.regs
    /\ WindowReads(\hE000, PrgBankCount - 1)
    /\ WindowReads(\hA000, driver.regs[8] % PrgBankCount)
    /\ IF ShiftRight(driver.selected, 6) % 2 = 0
       THEN /\ WindowReads(\h8000, driver.regs[7] % PrgBankCount)
            /\ WindowReads(\hC000, PrgBankCount - 2)
       ELSE /\ WindowReads(\h8000, PrgBankCount - 2)
            /\ WindowReads(\hC000, driver.regs[7] % PrgBankCount)

\* PRG mode 1 with R6 = 5, R7 = 0xFF and R0 = 1 over 4 banks: 0x8000 reads
\* bank 2, 0xA000 bank 3, 0xC000 bank 1.
C21_Witness ==
    /\ driver.selected = \h46
    /\ mapper.bankRegisters = <<1, 0, 0, 0, 0, 0, 5, 255>>
    /\ WindowReads(\h8000, 2)
    /\ WindowReads(\hA000, 3)
    /\ WindowReads(\hC000, 1)
    /\ WindowReads(\hE000, 3)

\* C22: PRG-RAM is enabled at power-on and, after that, exactly when the
\* latest odd write to 0xA000-0xBFFF had bit 7 set; while it is disabled
\* reads of 0x6000-0x7FFF return 0 and no write changes its contents, so
\* that the contents are found as they were once it is enabled again;
\* while it is enabled the reads return the contents.
C22_PrgRamProtect ==
    [][/\ last = NoOp => mapper.prgRamEnable
       /\ mapper'.prgRamEnable =
             IF last'.op = "protect" THEN last'.ret >= \h80
             ELSE mapper.prgRamEnable
       /\ ~mapper.prgRamEnable => mapper'.prgRam = mapper.prgRam
       /\ last'.op # "ramWrite" => mapper'.prgRam = mapper.prgRam
       /\ \A address \in PrgRamAddresses :
             MapperCpuRead(mapper', address) =
                 IF mapper'.prgRamEnable
                 THEN MapGet(mapper'.prgRam, address - \h6000) ELSE 0
      ]_vars

\* A write of 0x22 to 0x6000 made while PRG-RAM is disabled: the cell
\* keeps the 0x11 stored before, and the read returns 0.
C22_Witness ==
    /\ last.op = "ramWrite"
    /\ last.ret = \h22
    /\ ~mapper.prgRamEnable
    /\ MapGet(mapper.prgRam, 0) = \h11
    /\ MapGet(mapper.prgRam, \h1FFF) = \h11
    /\ MapperCpuRead(mapper, \h6000) = 0

---------------------------------------------------------------------------
(* Loading a cartridge: main() hands the parsed ROM to createMapper.  The  *)
(* mapper number is the byte parseRom assembles from the two flag bytes.   *)
(* driver.pc is "none" before the call, "created" once createMapper has    *)
(* returned a mapper, "failed" once it has thrown; event in last is the    *)
(* message of the error thrown.                                            *)

MapperNumbers == 0..255

ProbeAddresses == {\h6000, \h8000, \hFFFC, \hFFFD}

InitLoad ==
    /\ Holds([cpu |-> NewCPU, ppu |-> NewPPU, ram |-> EmptyMap,
              mapper |-> [kind |-> -1],
              controller1 |-> NewController, controller2 |-> NewController])
    /\ driver = [pc |-> "none"]
    /\ last = NoOp
    /\ ppuSteps = 0

LoadCartridge ==
    /\ driver.pc = "none"
    /\ \E number \in MapperNumbers, mirrorMode \in {Horizontal, Vertical} :
          LET Made(made) ==
                  /\ mapper' = made.mapper
                  /\ driver' = [pc |-> IF made.threw THEN "failed" ELSE "created"]
                  /\ last' = Did("createMapper", made.message, number, made.threw)
          IN  Made(createMapper([mapper |-> number, image |-> NmiProgram,
                                 mirrorMode |-> mirrorMode]))
    /\ UNCHANGED <<cpu, ppu, ram, controller1, controller2, ppuSteps>>

\* The mapper returned is read through the interface
ProbeMapper ==
    /\ driver.pc = "created"
    /\ \E address \in ProbeAddresses :
          last' = Did("cpuRead", "none", MapperCpuRead(mapper, address), FALSE)
    /\ UNCHANGED <<cpu, ppu, ram, mapper, controller1, controller2, driver, ppuSteps>>

NextLoad ==
    \/ LoadCartridge
    \/ ProbeMapper

SpecLoad == InitLoad /\ [][NextLoad]_vars

\* C23: createMapper returns a mapper of the cartridge's kind for the mapper
\* numbers 0, 1 and 4, and throws the unsupported-mapper error for every
\* other number.
C23_CreateMapper ==
    last.op = "createMapper" =>
        IF last.ret \in {0, 1, 4}
        THEN /\ driver.pc = "created"
             /\ ~last.raised
             /\ mapper.kind = last.ret
        ELSE /\ driver.pc = "failed"
             /\ last.raised
             /\ last.event = "Unsupported mapper"

\* createMapper has been called for a cartridge with mapper number 1.
C23_Witness ==
    /\ last.op = "createMapper"
    /\ last.ret = 1
    /\ driver.pc \in {"created", "failed"}

---------------------------------------------------------------------------
(* The bus on its own, as the bus routing tests drive it: single cpuWrite  *)
(* and cpuRead calls over an NROM cartridge, at addresses of the four      *)
(* regions and their mirrors.                                              *)

\* The accesses of one run
MaxAccesses == 3

RamAddresses ==
    {\h0000, \h0800, \h1000, \h1800, \h0400, \h1C00}

PpuRegisterAddresses == {\h2000, \h2008, \h3FF8, \h2006, \h3FFE}

IoAddresses == {\h4014, \h4016}

MapperAddresses == {\h4020, \h6000, \h8000}

BusAddresses ==
    RamAddresses \cup PpuRegisterAddresses \cup IoAddresses \cup MapperAddresses

BusReadAddresses == BusAddresses \cup {\h2002, \h3FFA}

BusValues == {\h80, \h01}

InitBus ==
    /\ Holds(PowerOn(0, NmiProgram))
    /\ driver = [n |-> 0, address |-> 0, value |-> 0]
    /\ last = NoOp
    /\ ppuSteps = 0

\* bus.cpuWrite(address, value)
BusWrite ==
    /\ driver.n < MaxAccesses
    /\ \E address \in BusAddresses, value \in BusValues :
          /\ Install(BusCpuWrite(Machine, address, value))
          /\ driver' = [n |-> driver.n + 1, address |-> address, value |-> value]
          /\ last' = Did("cpuWrite", "none", value, FALSE)
    /\ UNCHANGED ppuSteps

\* bus.cpuRead(address); ret is the byte read
BusRead ==
    /\ driver.n < MaxAccesses
    /\ \E address \in BusReadAddresses :
          LET Read(r) ==
                  /\ Install(r.m)
                  /\ driver' = [n |-> driver.n + 1, address |-> address,
                                value |-> 0]
                  /\ last' = Did("cpuRead", "none", r.val, FALSE)
          IN  Read(BusCpuRead(Machine, address))
    /\ UNCHANGED ppuSteps

NextBus ==
    \/ BusWrite
    \/ BusRead

SpecBus == InitBus /\ [][NextBus]_vars

\* The internal RAM holds the same bytes in f and g except at cell
SameRamBut(f, g, cell) ==
    \A c \in ((DOMAIN f) \cup (DOMAIN g)) \ {cell} : MapGet(f, c) = MapGet(g, c)

\* C24: every CPU access at address a goes to exactly one target: RAM cell
\* a & 0x07FF below 0x2000 (so a byte written there is read back at the
\* cell's address plus 0x0800, 0x1000 and 0x1800), PPU register
\* 0x2000 + (a & 7) below 0x4000 (so a write through a mirror of 0x2000 does
\* what writeRegister(0x2000, v) does), the I/O registers below 0x4020 and
\* the mapper otherwise; the other targets are left alone.
C24_BusRouting ==
    [][LET a == driver'.address
           v == driver'.value
           cell == a % \h0800
           after == [cpu |-> cpu', ppu |-> ppu', ram |-> ram',
                     mapper |-> mapper', controller1 |-> controller1',
                     controller2 |-> controller2']
       IN  /\ (last'.op = "cpuWrite" /\ a < \h2000) =>
                 /\ MapGet(ram', cell) = v
                 /\ SameRamBut(ram, ram', cell)
                 /\ UNCHANGED <<cpu, ppu, mapper, controller1, controller2>>
                 /\ \A mirror \in {\h0000, \h0800, \h1000, \h1800} :
                       BusCpuRead(after, cell + mirror).val = v
           /\ (last'.op = "cpuRead" /\ a < \h2000) =>
                 /\ last'.ret = MapGet(ram, cell)
                 /\ UNCHANGED <<cpu, ppu, ram, mapper, controller1, controller2>>
           /\ (last'.op = "cpuWrite" /\ a >= \h2000 /\ a < \h4000) =>
                 /\ after = writeRegister(Machine, \h2000 + (a % 8), v)
                 /\ a % 8 = 0 => ppu'.ppuCtrl = v /\ ppu'.latch = v
                 /\ UNCHANGED <<cpu, ram, controller1, controller2>>
           /\ (last'.op = "cpuRead" /\ a >= \h2000 /\ a < \h4000) =>
                 /\ last'.ret = readRegister(Machine, \h2000 + (a % 8)).val
                 /\ ppu' = readRegister(Machine, \h2000 + (a % 8)).m.ppu
                 /\ UNCHANGED <<cpu, ram, controller1, controller2>>
           /\ (last'.op \in {"cpuWrite", "cpuRead"} /\ a >= \h4000 /\ a < \h4020) =>
                 /\ UNCHANGED <<ram, mapper>>
                 /\ a # \h4014 => UNCHANGED <<cpu, ppu>>
           /\ (last'.op = "cpuWrite" /\ a >= \h4020) =>
                 /\ mapper' = MapperCpuWrite(mapper, a, v)
                 /\ UNCHANGED <<cpu, ppu, ram, controller1, controller2>>
           /\ (last'.op = "cpuRead" /\ a >= \h4020) =>
                 /\ last'.ret = MapperCpuRead(mapper, a)
                 /\ UNCHANGED <<cpu, ppu, ram, mapper, controller1, controller2>>
      ]_vars

\* A byte written at 0x0400 has been read back at 0x1C00, after PPUCTRL was
\* written through the mirror 0x3FF8.
C24_Witness ==
    /\ last.op = "cpuRead"
    /\ driver.address = \h1C00
    /\ last.ret = \h80
    /\ MapGet(ram, \h0400) = \h80
    /\ ppu.ppuCtrl = \h01
    /\ driver.n = 3

---------------------------------------------------------------------------
(* The PPU memory behind 0x2006 and 0x2007, as the PPU tests drive it: a   *)
(* PPU over an NROM cartridge, its registers written and read one call at  *)
(* a time, the address written high byte first.  The caller is             *)
(*   n           the accesses made, of max                                 *)
(*   register, value   the last access                                     *)
(*   at          the PPU address v the last access found                   *)
(*   wroteAt, wroteValue   the address and value of the last 0x2007 write  *)
(*   highs, lows, data, scroll   the bytes it writes to 0x2006 (first and  *)
(*               second write), 0x2007 and 0x2005                          *)

\* The register accesses of one run
MaxRegisterAccesses == 7

Caller(highs, lows, data, scroll, max) ==
    [n |-> 0, register |-> 0, value |-> 0, at |-> 0,
     wroteAt |-> -1, wroteValue |-> 0,
     highs |-> highs, lows |-> lows, data |-> data, scroll |-> scroll,
     max |-> max]

PpuOver(mode) ==
    [cpu |-> NewCPU, ppu |-> NewPPU, ram |-> EmptyMap,
     mapper |-> NewMapper(0, NmiProgram, mode, FALSE),
     controller1 |-> NewController, controller2 |-> NewController]

RegisterWrites ==
    [register : {\h2006}, value : IF ppu.w THEN driver.lows ELSE driver.highs]
        \cup [register : {\h2007}, value : driver.data]
        \cup [register : {\h2005}, value : driver.scroll]

RegisterReads == {\h2002, \h2007}

\* Nametable 0 and the palette, one byte written
InitVram ==
    /\ Holds(PpuOver(Horizontal))
    /\ driver = Caller({\h20, \h3F}, {\h00, \h10}, {\h15, \h2A}, ScrollValues,
                       MaxRegisterAccesses)
    /\ last = NoOp
    /\ ppuSteps = 0

\* ppu.writeRegister(register, value)
RegisterWrite ==
    /\ driver.n < driver.max
    /\ \E access \in RegisterWrites :
          /\ Install(writeRegister(Machine, access.register, access.value))
          /\ driver' = [driver EXCEPT
                           !.n = @ + 1,
                           !.register = access.register,
                           !.value = access.value,
                           !.at = ppu.v,
                           !.wroteAt = IF access.register = \h2007
                                       THEN ppu.v ELSE @,
                           !.wroteValue = IF access.register = \h2007
                                          THEN access.value ELSE @]
          /\ last' = Did("writeRegister", "none", access.value, FALSE)
    /\ UNCHANGED ppuSteps

\* ppu.readRegister(register); ret is the byte read
RegisterRead ==
    /\ driver.n < driver.max
    /\ \E register \in RegisterReads :
          LET Read(r) ==
                  /\ Install(r.m)
                  /\ driver' = [driver EXCEPT !.n = @ + 1,
                                              !.register = register,
                                              !.value = 0,
                                              !.at = ppu.v]
                  /\ last' = Did("readRegister", "none", r.val, FALSE)
          IN  Read(readRegister(Machine, register))
    /\ UNCHANGED ppuSteps

NextVram ==
    \/ RegisterWrite
    \/ RegisterRead

SpecVram == InitVram /\ [][NextVram]_vars

DataRead(l, d) == l.op = "readRegister" /\ d.register = \h2007

DataWrite(l, d) == l.op = "writeRegister" /\ d.register = \h2007

InNametables(address) == address % \h4000 >= \h2000 /\ address % \h4000 < \h3F00

InPalette(address) == address % \h4000 >= \h3F00

\* C26: a read of 0x2007 with v below 0x3F00 returns the byte the previous
\* read left in the buffer and refills the buffer with the byte at v, so
\* the second of two reads in a row returns the byte at the address the
\* first found, which is the byte written there if the last write was made
\* at that nametable address; a read with v at 0x3F00 or above returns the
\* palette byte at once, the byte written there if the last write was made
\* at v.  With the increment at 1, v moves on by one.
C26_BufferedRead ==
    [][DataRead(last', driver') =>
          /\ ppu'.v = (ppu.v + 1) % \h8000
          /\ ~InPalette(ppu.v) =>
                /\ last'.ret = ppu.dataBuffer
                /\ ppu'.dataBuffer = ppuReadInternal(Machine, ppu.v).val
                /\ (/\ DataRead(last, driver)
                    /\ InNametables(driver.at)
                    /\ driver.wroteAt = driver.at) =>
                         last'.ret = driver.wroteValue
          /\ InPalette(ppu.v) =>
                /\ last'.ret = MapGet(ppu.paletteRam, paletteIndex(ppu.v))
                /\ driver.wroteAt = ppu.v => last'.ret = driver.wroteValue
      ]_vars

\* 0x2A was written at 0x2000, the address was set to 0x2000 again, and the
\* second of two reads has returned 0x2A, leaving the byte at 0x2001 in
\* the buffer.
C26_Witness ==
    /\ DataRead(last, driver)
    /\ driver.n = 7
    /\ driver.wroteAt = \h2000
    /\ driver.at = \h2001
    /\ last.ret = \h2A
    /\ ppu.dataBuffer = 0
    /\ ppu.v = \h2002

\* C27: 0x2005 and 0x2006 share the write toggle: a write to either flips
\* w and a read of 0x2002 resets it, while the accesses of 0x2007 leave it
\* alone; a write to 0x2006 that finds w set puts the byte in the low half
\* of t and copies t into v; a write to 0x2005, and a write to 0x2006 that
\* finds w clear, leave v alone, so v changes only by that copy and by the
\* increment of a 0x2007 access.
C27_SharedToggle ==
    [][LET write == last'.op = "writeRegister"
           register == driver'.register
       IN  /\ (write /\ register \in {\h2005, \h2006}) => ppu'.w = ~ppu.w
           /\ (last'.op = "readRegister" /\ register = \h2002) => ~ppu'.w
           /\ register = \h2007 => ppu'.w = ppu.w
           /\ (write /\ register = \h2005) => ppu'.v = ppu.v
           /\ (write /\ register = \h2006 /\ ~ppu.w) => ppu'.v = ppu.v
           /\ (write /\ register = \h2006 /\ ppu.w) =>
                 /\ ppu'.t = (ppu.t \div 256) * 256 + driver'.value
                 /\ ppu'.v = ppu'.t
           /\ ppu'.v # ppu.v =>
                 \/ write /\ register = \h2006 /\ ppu.w
                 \/ register = \h2007
      ]_vars

\* A write to 0x2005 set the toggle and the write to 0x2006 that followed
\* was taken as the second of a pair: it copied t into v.
C27_Witness ==
    /\ last.op = "writeRegister"
    /\ driver.register = \h2006
    /\ driver.value = \h10
    /\ driver.n = 2
    /\ ppu.x = 5
    /\ ppu.t = \h0010
    /\ ppu.v = \h0010
    /\ ~ppu.w

---------------------------------------------------------------------------
(* The palette behind 0x2006 and 0x2007: the same PPU and accesses, the    *)
(* caller writing and reading the entries 0, 4, 8 and 12 of both halves    *)
(* and one entry of each half that is not a multiple of four.              *)

\* The register accesses of one run over the palette
MaxPaletteAccesses == 6

PaletteLowBytes ==
    {\h00, \h04, \h08, \h0C, \h10, \h14, \h18, \h1C, \h01, \h11}

InitPalette ==
    /\ Holds(PpuOver(Horizontal))
    /\ driver = Caller({\h3F}, PaletteLowBytes, {\h15, \h2A}, {},
                       MaxPaletteAccesses)
    /\ last = NoOp
    /\ ppuSteps = 0

SpecPalette == InitPalette /\ [][NextVram]_vars

\* The byte a caller reads back from the PPU address: 0x2002 read, the
\* address written to 0x2006 high byte first, then 0x2007 read, twice below
\* the palette (the first read returns the buffer).
ReadBack(m, address) ==
    LET Second(first) == readRegister(first.m, \h2007).val
        Data(addressed) ==
            IF InPalette(address)
            THEN readRegister(addressed, \h2007).val
            ELSE Second(readRegister(addressed, \h2007))
        LowByte(high) == Data(writeRegister(high, \h2006, address % 256))
        HighByte(cleared) == LowByte(writeRegister(cleared, \h2006, address \div 256))
    IN  HighByte(readRegister(m, \h2002).m)

PaletteAddresses == {\h3F00 + i : i \in 0..31}

\* Entries a and b are one byte: the same entry, or entry 0, 4, 8 or 12 of
\* one half and of the other
PaletteAliased(a, b) ==
    \/ a % 32 = b % 32
    \/ a % 4 = 0 /\ a % 16 = b % 16

\* C28: a value written through 0x2007 at a palette address is read back
\* at that address and, for the entries 0, 4, 8 and 12 of either half, at
\* the same entry of the other half; every other palette entry, the
\* entries of the other half that are not multiples of four among them,
\* reads back what it did before the write.
C28_PaletteAliasing ==
    [][LET after == [cpu |-> cpu', ppu |-> ppu', ram |-> ram',
                     mapper |-> mapper', controller1 |-> controller1',
                     controller2 |-> controller2']
       IN  /\ (DataWrite(last', driver') /\ InPalette(ppu.v)) =>
                 \A b \in PaletteAddresses :
                    ReadBack(after, b) = IF PaletteAliased(ppu.v, b)
                                         THEN driver'.value
                                         ELSE ReadBack(Machine, b)
           /\ (/\ DataRead(last', driver')
               /\ InPalette(ppu.v)
               /\ driver.wroteAt >= 0
               /\ InPalette(driver.wroteAt)) =>
                    (last'.ret = driver.wroteValue
                        <=> \/ PaletteAliased(driver.wroteAt, ppu.v)
                            \/ MapGet(ppu.paletteRam, paletteIndex(ppu.v))
                                 = driver.wroteValue)
      ]_vars

\* 0x2A written at 0x3F10 has been read back at 0x3F00, while 0x3F11 and
\* 0x3F01 hold nothing.
C28_Witness ==
    /\ DataRead(last, driver)
    /\ driver.at = \h3F00
    /\ driver.wroteAt = \h3F10
    /\ driver.wroteValue = \h2A
    /\ last.ret = \h2A
    /\ ReadBack(Machine, \h3F01) = 0
    /\ ReadBack(Machine, \h3F11) = 0

---------------------------------------------------------------------------
(* The nametables behind 0x2006 and 0x2007: the same PPU and accesses over *)
(* a cartridge of each mirroring mode, the caller writing and reading two  *)
(* offsets of each of the four logical tables.                             *)

\* The register accesses of one run over the nametables
MaxNametableAccesses == 5

MirrorModes ==
    {Horizontal, Vertical, SingleScreenLower, SingleScreenUpper, FourScreen}

InitNametable ==
    /\ \E mode \in MirrorModes : Holds(PpuOver(mode))
    /\ driver = Caller({\h20, \h24, \h28, \h2C}, {\h00, \h11}, {\h15, \h2A}, {},
                       MaxNametableAccesses)
    /\ last = NoOp
    /\ ppuSteps = 0

SpecNametable == InitNametable /\ [][NextVram]_vars

\* In the modes given: a byte written through 0x2007 at offset k of logical
\* table i is read back at offset k of logical table j if the mode maps i
\* and j to one page, and table j reads back what it did before if not.
NametableRule(modes) ==
    LET after == [cpu |-> cpu', ppu |-> ppu', ram |-> ram',
                  mapper |-> mapper', controller1 |-> controller1',
                  controller2 |-> controller2']
        i == (ppu.v - \h2000) \div \h400
        k == ppu.v % \h400
        page == MIRROR_LOOKUP(mapper.mirrorMode)
    IN  (/\ mapper.mirrorMode \in modes
         /\ DataWrite(last', driver')
         /\ ppu.v >= \h2000
         /\ ppu.v < \h3000) =>
            \A j \in 0..3 :
               ReadBack(after, \h2000 + \h400 * j + k)
                  = IF page[i + 1] = page[j + 1]
                    THEN driver'.value
                    ELSE ReadBack(Machine, \h2000 + \h400 * j + k)

\* C29: in each mirroring mode two nametable addresses at the same offset
\* of logical tables i and j address one stored byte if and only if the
\* mode maps i and j to one page; in FourScreen mode the four tables are
\* four pages, each reading back the value last written to it.
C29_NametableMirroring == [][NametableRule(MirrorModes)]_vars

\* In FourScreen mode 0x2A has been written at 0x2800, in logical table 2:
\* the store fell past the end of the 2 KiB array and a read at 0x2800
\* returns undefined.
C29_Witness ==
    /\ mapper.mirrorMode = FourScreen
    /\ DataWrite(last, driver)
    /\ driver.at = \h2800
    /\ driver.value = \h2A
    /\ ppu.vram = EmptyMap
    /\ ReadBack(Machine, \h2800) = Undefined

---------------------------------------------------------------------------
(* The PPU stepped over several frames, rendering switched on before the   *)
(* first dot or left off, over a picture with no sprite in view.  The      *)
(* caller counts the steps and notes those that raise the VBlank flag:     *)
(*   starts   the VBlank starts seen                                       *)
(*   at       the number of the step that made the last one                *)
(*   gap      the steps from the one before it to the last one             *)

\* The dots of a run over frames: past the fourth VBlank start
MaxFrameDots == 350300

InitFrames ==
    /\ Holds(PpuOver(Horizontal))
    /\ driver = [starts |-> 0, at |-> 0, gap |-> 0]
    /\ last = NoOp
    /\ ppuSteps = 0

\* ppu.writeRegister(0x2001, value) before the first dot
FramesWriteMask ==
    /\ ppuSteps = 0
    /\ ppu.ppuMask = 0
    /\ \E value \in MaskValues : Install(writeRegister(Machine, \h2001, value))
    /\ last' = Did("writeMask", "none", 0, FALSE)
    /\ UNCHANGED <<driver, ppuSteps>>

\* ppu.step()
FramesTick ==
    /\ ppuSteps < MaxFrameDots
    /\ LET Stepped(m) ==
               /\ Install(m)
               /\ driver' = IF Test(m.ppu.ppuStatus, \h80)
                               /\ ~Test(ppu.ppuStatus, \h80)
                            THEN [starts |-> driver.starts + 1,
                                  at |-> ppuSteps + 1,
                                  gap |-> IF driver.starts = 0 THEN 0
                                          ELSE ppuSteps + 1 - driver.at]
                            ELSE driver
       IN  Stepped(PpuStep(Machine, NoInput))
    /\ last' = Did("tick", "none", 0, FALSE)
    /\ ppuSteps' = ppuSteps + 1

NextFrames ==
    \/ FramesWriteMask
    \/ FramesTick

SpecFrames == InitFrames /\ [][NextFrames]_vars

FrameDots == 262 * 341

\* C30: the VBlank flag is raised by the step that processes scanline 241
\* dot 1 and by no other; with rendering off two such steps in a row are
\* 262 * 341 steps apart; with rendering on the distance is 262 * 341 and
\* one less in turn, because the step made at dot 339 of the pre-render
\* line of an odd frame goes to scanline 0 dot 0 and flips the odd-frame
\* flag, where on an even frame, or with rendering off, it goes to dot 340.
C30_FrameLength ==
    [][last'.op = "tick" =>
          LET renderingEnabled == BitAnd(ppu.ppuMask, \h18) # 0
          IN  /\ driver'.starts # driver.starts
                    <=> ppu.scanline = 241 /\ ppu.cycle = 1
              /\ (driver'.starts # driver.starts /\ driver.starts > 0) =>
                    driver'.gap = IF renderingEnabled /\ driver.starts % 2 = 0
                                  THEN FrameDots - 1
                                  ELSE FrameDots
              /\ (ppu.scanline = 261 /\ ppu.cycle = 339) =>
                    IF renderingEnabled /\ ppu.oddFrame
                    THEN /\ ppu'.scanline = 0
                         /\ ppu'.cycle = 0
                         /\ ~ppu'.oddFrame
                    ELSE /\ ppu'.scanline = 261
                         /\ ppu'.cycle = 340
                         /\ ppu'.oddFrame = ppu.oddFrame
      ]_vars

\* With rendering on, the third VBlank start has come one step less than
\* 262 * 341 steps after the second: the frame between them was odd.
C30_Witness ==
    /\ BitAnd(ppu.ppuMask, \h18) # 0
    /\ driver.starts = 3
    /\ driver.gap = FrameDots - 1
    /\ driver.at = ppuSteps
    /\ ppu.scanline = 241
    /\ ppu.cycle = 2

---------------------------------------------------------------------------
(* The pixels of the first dots of a frame: the same PPU and register      *)
(* accesses, the caller writing bytes with and without the top two bits    *)
(* to the first palette entries, rendering switched on before the first    *)
(* dot or left off, and the PPU stepped over the first visible dots.       *)

\* The register accesses of one run before and between the dots
MaxPixelAccesses == 3

\* The dots of one run
MaxPixelDots == 3

\* The palette indexes the priority multiplexer can select: background
\* palettes 0 .. 3 and sprite palettes 4 .. 7, pixel values 0 .. 3
PaletteIndexes == 0..31

InitPixel ==
    /\ Holds(PpuOver(Horizontal))
    /\ driver = Caller({\h3F}, {\h00, \h01}, {\h3F, \hFF}, {}, MaxPixelAccesses)
    /\ last = NoOp
    /\ ppuSteps = 0

\* ppu.step(); at a visible dot ret is the byte stored in the frame buffer
PixelTick ==
    /\ ppuSteps < MaxPixelDots
    /\ \E index \in IF VisibleDot(Machine) /\ BitAnd(ppu.ppuMask, \h18) # 0
                    THEN PaletteIndexes ELSE {0} :
          /\ Install(PpuStep(Machine, NoInput))
          /\ last' = Did("tick",
                         IF VisibleDot(Machine) THEN "pixel" ELSE "none",
                         IF VisibleDot(Machine) THEN PixelOutput(Machine, index)
                         ELSE 0,
                         FALSE)
    /\ ppuSteps' = ppuSteps + 1
    /\ UNCHANGED driver

NextPixel ==
    \/ RegisterWrite
    \/ RegisterRead
    \/ FramesWriteMask
    \/ PixelTick

SpecPixel == InitPixel /\ [][NextPixel]_vars

\* C31: every byte the PPU stores in the frame buffer is in 0 .. 63,
\* whatever was written to the palette through 0x2007, with rendering on
\* and with rendering off, when paletteRam[0] is the byte stored.
C31_FrameBufferSixBit == last.event = "pixel" => last.ret \in 0..63

\* With rendering off and 0xFF written at 0x3F00, the step at a visible
\* dot has stored 0xFF in the frame buffer.
C31_Witness ==
    /\ last.event = "pixel"
    /\ ppu.ppuMask = 0
    /\ MapGet(ppu.paletteRam, 0) = \hFF
    /\ last.ret = \hFF

---------------------------------------------------------------------------
(* Single instructions, as entry.execute(ctx) runs them on a CPU whose     *)
(* registers and memory hold the inputs: the caller names the instructions *)
(* it runs and the address ctx.address of the operand.                     *)

Bytes == 0..255

\* The top of the stack of a CPU with SP = 0xFD
StackTop == \h01FE

\* PHP, BRK, PLP and RTI for every status byte P and every byte on the
\* stack
InitFlags ==
    /\ \E p \in Bytes, pulled \in Bytes :
          Holds([PowerOn(0, NmiProgram) EXCEPT
                    !.cpu.status = p,
                    !.ram = MapPut(EmptyMap, StackTop, pulled)])
    /\ driver = [names |-> {"PHP", "BRK", "PLP", "RTI"}, address |-> 0]
    /\ last = NoOp
    /\ ppuSteps = 0

\* entry.execute(ctx) of one instruction, once
ExecuteInstruction ==
    /\ last = NoOp
    /\ \E name \in driver.names :
          /\ Install(Execute(Machine, name, "Implied", driver.address, FALSE).m)
          /\ last' = Did(name, "none", 0, FALSE)
    /\ UNCHANGED <<driver, ppuSteps>>

SpecFlags == InitFlags /\ [][ExecuteInstruction]_vars

\* C32: for every P, PHP and BRK push P with bits 4 and 5 set and leave
\* bit 4 of the P register as it was (PHP leaves P alone, BRK sets
\* InterruptDisable only); PLP and RTI load P from the byte pulled with
\* bit 4 cleared, bit 5 set and the other six bits as pulled.
C32_StatusOnStack ==
    [][/\ last'.op = "PHP" =>
             /\ MapGet(ram', \h0100 + cpu.sp) = BitOr(cpu.status, \h30)
             /\ cpu'.status = cpu.status
       /\ last'.op = "BRK" =>
             /\ MapGet(ram', \h0100 + cpu.sp - 2) = BitOr(cpu.status, \h30)
             /\ cpu'.status = BitOr(cpu.status, InterruptDisable)
             /\ Test(cpu'.status, \h10) = Test(cpu.status, \h10)
       /\ last'.op \in {"PLP", "RTI"} =>
             /\ ~Test(cpu'.status, \h10)
             /\ Test(cpu'.status, \h20)
             /\ BitAnd(cpu'.status, \hCF) = BitAnd(MapGet(ram, StackTop), \hCF)
      ]_vars

\* RTI has pulled 0xFF into a P that was 0x00: P is 0xEF.
C32_Witness ==
    /\ last.op = "RTI"
    /\ MapGet(ram, StackTop) = \hFF
    /\ cpu.status = \hEF
    /\ cpu.sp = 0

\* The zero-page address of the operand of ADC and SBC
OperandAddress == \h0010

\* The flags other than Carry before the instruction: I and U as after
\* reset, or Z, V and N set as well
FlagsBefore == {\h24, \hE6}

\* ADC and SBC for every accumulator, every operand and every carry-in
InitAdd ==
    /\ \E a \in Bytes, b \in Bytes, c \in {0, 1}, p \in FlagsBefore :
          Holds([PowerOn(0, NmiProgram) EXCEPT
                    !.cpu.a = a,
                    !.cpu.status = p + c,
                    !.ram = MapPut(EmptyMap, OperandAddress, b)])
    /\ driver = [names |-> {"ADC", "SBC"}, address |-> OperandAddress]
    /\ last = NoOp
    /\ ppuSteps = 0

SpecAdd == InitAdd /\ [][ExecuteInstruction]_vars

\* A and the flags C, V, Z, N that the addition a + b + c leaves, by
\* arithmetic: V when a and b have the same sign and the result has the
\* other one, which is ((a ^ result) & (b ^ result) & 0x80) != 0
Sum(a, b, c) ==
    LET result == (a + b + c) % 256
    IN  [a |-> result,
         c |-> a + b + c > 255,
         v |-> (a >= 128) = (b >= 128) /\ (result >= 128) # (a >= 128),
         z |-> result = 0,
         n |-> result >= 128]

Flags(registers) ==
    [a |-> registers.a,
     c |-> registers.status % 2 = 1,
     v |-> (registers.status \div 64) % 2 = 1,
     z |-> (registers.status \div 2) % 2 = 1,
     n |-> registers.status >= 128]

\* C33: for all A, b in 0..255 and every carry-in c, ADC leaves
\* A = (A + b + c) mod 256, C = (A + b + c > 255), V = the signed overflow
\* of the addition, Z and N from the result; SBC with operand b leaves
\* what ADC leaves with operand b XOR 0xFF.
C33_AddWithCarry ==
    [][LET a == cpu.a
           b == MapGet(ram, OperandAddress)
           c == cpu.status % 2
       IN  /\ last'.op = "ADC" => Flags(cpu') = Sum(a, b, c)
           /\ last'.op = "SBC" => Flags(cpu') = Sum(a, BitXor(b, \hFF), c)
      ]_vars

\* 0x50 - 0xB0 with the carry set (no borrow): A = 0xA0 with V and N set
\* and C clear.
C33_Witness ==
    /\ last.op = "SBC"
    /\ MapGet(ram, OperandAddress) = \hB0
    /\ cpu.a = \hA0
    /\ cpu.status = \hE4

---------------------------------------------------------------------------
(* CPU.reset() called on a CPU in any state: the registers, the counters   *)
(* and the requests hold any of the values below, over cartridges whose    *)
(* reset vectors differ (0x8000, 0x0303 and 0x0101).                       *)

ResetImages == {NmiProgram, FilledImage, [FilledImage EXCEPT !.fill = \h4000]}

CpuStatesBefore ==
    [a : {\h00, \h5A}, x : {\h00, \hFF}, y : {\h00, \h01},
     sp : {\hFD, \h00}, pc : {\h8000, \h1234}, status : {\h24, \hE7},
     totalCycles : {7, 29}, stallCyclesCount : {0, 2},
     nmiPending : BOOLEAN, irqPending : BOOLEAN]

InitReset ==
    /\ \E image \in ResetImages, before \in CpuStatesBefore :
          /\ Holds([PowerOn(0, image) EXCEPT !.cpu = before])
          /\ driver = [before |-> before]
    /\ last = NoOp
    /\ ppuSteps = 0

\* cpu.reset(), the CPU it was called on noted
ResetAny ==
    /\ last = NoOp
    /\ Install(reset(Machine))
    /\ last' = Did("reset", "none", 0, FALSE)
    /\ driver' = [before |-> cpu]
    /\ UNCHANGED ppuSteps

SpecReset == InitReset /\ [][ResetAny]_vars

\* C34: after reset() from any state A = X = Y = 0, SP = 0xFD, P = 0x24,
\* PC is the little-endian word at 0xFFFC/0xFFFD, the total cycle counter
\* is 7, and no NMI, no IRQ and no stall cycle is outstanding.
C34_Reset ==
    last.op = "reset" =>
        /\ cpu.a = 0 /\ cpu.x = 0 /\ cpu.y = 0
        /\ cpu.sp = \hFD
        /\ cpu.status = \h24
        /\ cpu.pc = BusCpuRead(Machine, \hFFFC).val
                    + 256 * BusCpuRead(Machine, \hFFFD).val
        /\ cpu.totalCycles = 7
        /\ ~cpu.nmiPending /\ ~cpu.irqPending
        /\ cpu.stallCyclesCount = 0

\* A reset of a CPU that had an NMI, an IRQ and two stall cycles
\* outstanding, over the cartridge whose vector is 0x0101.
C34_Witness ==
    /\ last.op = "reset"
    /\ driver.before.nmiPending /\ driver.before.irqPending
    /\ driver.before.stallCyclesCount = 2
    /\ driver.before.a = \h5A /\ driver.before.sp = \h00
    /\ driver.before.status = \hE7 /\ driver.before.totalCycles = 29
    /\ cpu.pc = \h0101

---------------------------------------------------------------------------
(* frameComplete over several frames (SpecFrames): the caller never writes *)
(* the flag.                                                               *)

\* C35: after any step that moves the position from the pre-render line
\* (scanline 261) to scanline 0 dot 0, frameComplete is false.
C35_FrameCompleteCleared ==
    [][ppu.scanline = 261 /\ ppu'.scanline = 0 /\ ppu'.cycle = 0
       => ~ppu'.frameComplete]_vars

\* The same with the rendering left off, where the position wraps past
\* dot 340 of the pre-render line on every frame.
FrameCompleteClearedRenderingOff ==
    [][ppu.scanline = 261 /\ ppu'.scanline = 0 /\ ppu'.cycle = 0
       /\ BitAnd(ppu.ppuMask, \h18) = 0
       => ~ppu'.frameComplete]_vars

\* With rendering on, the step at dot 339 of the pre-render line of the
\* second frame has jumped to scanline 0 dot 0 and frameComplete is
\* still set.
C35_Witness ==
    /\ last.op = "tick"
    /\ ppu.scanline = 0 /\ ppu.cycle = 0
    /\ BitAnd(ppu.ppuMask, \h18) # 0
    /\ ~ppu.oddFrame
    /\ ppu.frameComplete

---------------------------------------------------------------------------
(* The MMC3 reload (SpecMmc3).                                             *)

\* C36: an odd write to 0xC000-0xDFFF asks for a reload, and the request
\* stands over every other write; the next scanlineTick() loads the
\* counter with the latch as it is at that tick, whatever the counter held
\* before the write, without decrementing; the ticks after it count down
\* by one while the counter is above 0.
C36_Reload ==
    [][/\ last'.op = "reload" => mapper'.irqReloadPending
       /\ mapper.irqReloadPending /\ last'.op # "scanlineTick"
             => mapper'.irqReloadPending
       /\ mapper.irqReloadPending /\ last'.op = "scanlineTick"
             => /\ mapper'.irqCounter = mapper.irqLatch
                /\ ~mapper'.irqReloadPending
       /\ ~mapper.irqReloadPending /\ mapper.irqCounter > 0
          /\ last'.op = "scanlineTick"
             => mapper'.irqCounter = mapper.irqCounter - 1
      ]_vars

\* The first tick after the latch was set to 255 and the reload asked
\* for: the counter is 255.
C36_Witness ==
    /\ last.op = "scanlineTick"
    /\ "reload" \in driver.wrote
    /\ driver.ticks = 1
    /\ mapper.irqLatch = 255
    /\ mapper.irqCounter = 255

---------------------------------------------------------------------------
(* The scanline counter of an MMC3 cartridge clocked by the PPU: rendering *)
(* on, 8x8 sprites, the background pattern table at 0x0000 and the sprite  *)
(* pattern table at 0x1000 (PPUCTRL = 0x08), no access to 0x2007.  The     *)
(* counter is armed before the first dot.  The caller notes               *)
(*   ticks   the scanlineTick() calls made in the scanline being drawn,    *)
(*   done    those made in the scanline drawn before it (-1: none drawn).  *)
(* A call is seen on the mapper: with a latch above 0 every scanlineTick() *)
(* changes the counter.                                                    *)

\* The dots of a run over scanlines: four scanlines and a few dots
MaxScanlineDots == 1400

ScanlineLatches == {1, 2}

\* OAM with every sprite at Y = 0xF0, below the picture
HiddenOam == [j \in {4 * i : i \in 0..63} |-> \hF0]

\* OAM as constructed (all zero: 64 sprites at Y = 0), OAM with every
\* sprite hidden, and OAM with sprite 0 at Y = 1 and the others hidden
OamLayouts == {EmptyMap, HiddenOam, MapPut(HiddenOam, 0, 1)}

\* What evaluateSprites finds in OAM for the scanline being drawn
SpritesInRange(m) ==
    {i \in 0..63 :
        LET diff == m.ppu.scanline - MapGet(m.ppu.oam, 4 * i)
        IN  diff >= 0 /\ diff < (IF Test(m.ppu.ppuCtrl, \h20) THEN 16 ELSE 8)}

OamInput(m) ==
    LET found == Cardinality(SpritesInRange(m))
    IN  [NoInput EXCEPT !.count = IF found > MaxSprites THEN MaxSprites ELSE found,
                        !.sprite0 = 0 \in SpritesInRange(m),
                        !.overflow = found > MaxSprites]

Armed4(mp, latch) ==
    MapperCpuWrite(MapperCpuWrite(MapperCpuWrite(mp, \hC000, latch),
                                  \hC001, 0), \hE001, 0)

InitScanline ==
    /\ \E layout \in OamLayouts, latch \in ScanlineLatches :
          Holds(writeRegister(writeRegister(
                   [cpu |-> NewCPU, ppu |-> [NewPPU EXCEPT !.oam = layout],
                    ram |-> EmptyMap,
                    mapper |-> Armed4(NewMapper(4, IrqProgram, Horizontal, FALSE),
                                      latch),
                    controller1 |-> NewController, controller2 |-> NewController],
                   \h2000, \h08), \h2001, \h18))
    /\ driver = [ticks |-> 0, done |-> 0 - 1]
    /\ last = NoOp
    /\ ppuSteps = 0

\* ppu.step()
ScanlineTick ==
    /\ ppuSteps < MaxScanlineDots
    /\ LET Stepped(m) ==
               /\ Install(m)
               /\ driver' =
                    LET ticks == driver.ticks + (IF m.mapper # mapper THEN 1 ELSE 0)
                    IN  IF m.ppu.scanline # ppu.scanline
                        THEN [ticks |-> 0, done |-> ticks]
                        ELSE [ticks |-> ticks, done |-> driver.done]
       IN  Stepped(PpuStep(Machine, OamInput(Machine)))
    /\ last' = Did("tick", "none", 0, FALSE)
    /\ ppuSteps' = ppuSteps + 1

SpecScanline == InitScanline /\ [][ScanlineTick]_vars

\* C37: the PPU calls mapper.scanlineTick() exactly once during every
\* visible scanline, whatever the OAM contents.
C37_OneTickPerScanline ==
    ppu.cycle = 0 /\ ppu.scanline \in 1..240 /\ driver.done # 0 - 1
        => driver.done = 1

\* The same for the scanlines on which evaluateSprites found a sprite
OneTickPerScanlineWithSprites ==
    ppu.cycle = 0 /\ ppu.scanline \in 1..240 /\ driver.done # 0 - 1
    /\ ppu.spriteCount > 0
        => driver.done = 1

\* Scanline 0 has been drawn over an OAM whose sprites are all hidden:
\* scanlineTick() was not called.
C37_Witness ==
    /\ ppu.scanline = 1 /\ ppu.cycle = 0
    /\ ppu.oam = HiddenOam
    /\ BitAnd(ppu.ppuMask, \h18) # 0 /\ ppu.ppuCtrl = \h08
    /\ driver.done = 0
    /\ mapper.irqReloadPending

---------------------------------------------------------------------------
(* Interrupts and cycle counts of the CPU on its own (SpecCpu).            *)

\* C38: when an NMI or IRQ was serviced at PC = p with P = s and SP = q and
\* the handler has left the stack balanced, the RTI that ends the handler
\* restores PC = p, SP = q and P = s, InterruptDisable included.
C38_InterruptRoundTrip ==
    [][LET frame == driver.frames[Len(driver.frames)]
       IN  /\ last'.op = "step"
           /\ AtRti(Machine)
           /\ driver.frames # <<>>
           /\ cpu.sp = (frame.sp + 256 - 3) % 256
           => /\ cpu'.pc = frame.pc
              /\ cpu'.sp = frame.sp
              /\ cpu'.status = frame.status
      ]_vars

\* An IRQ taken with InterruptDisable clear has been returned from: the
\* flag is clear again and the program is back in its loop.
C38_Witness ==
    /\ last.op = "step" /\ last.event = "instruction"
    /\ driver.trips = 1 /\ driver.frames = <<>>
    /\ MapGet(ram, \h01FB) = \h20
    /\ cpu.status = \h20
    /\ cpu.sp = \hFD

---------------------------------------------------------------------------
(* One instruction of every opcode, run by the operations of SpecCpu.  The *)
(* instruction sits in PRG-RAM with the operand bytes 0xFF 0x02 behind it  *)
(* (the address 0x02FF, the zero-page address 0xFF, the branch offset -1), *)
(* at the start of a page or so that its last byte ends the page; X and Y  *)
(* are both 0 or both 1 and the flags are all clear or all set, which      *)
(* makes every index and every branch cross a page in some state and every *)
(* branch be taken in some state.                                          *)

\* The caller stops at this total cycle count: past the first instruction
MaxSweepCycles == 9

Opcodes == 0..255

SweepStarts == {\h6000, \h60FE}

\* The zero page empty, or holding the pointer 0x02FF at 0xFF/0x00
SweepPointers == {EmptyMap, MapPut(MapPut(EmptyMap, \h00FF, \hFF), \h0000, \h02)}

InstructionAt(start, opcode) ==
    MapPut(MapPut(MapPut(EmptyMap, start - \h6000, opcode),
                  start + 1 - \h6000, \hFF),
           start + 2 - \h6000, \h02)

InitSweep ==
    /\ \E opcode \in Opcodes, start \in SweepStarts, index \in {0, 1},
          status \in {\h24, \hE7}, pointers \in SweepPointers :
          Holds([PowerOn(0, NmiProgram) EXCEPT
                    !.cpu.pc = start,
                    !.cpu.x = index, !.cpu.y = index,
                    !.cpu.status = status,
                    !.ram = pointers,
                    !.mapper.prgRam = InstructionAt(start, opcode)])
    /\ driver = CpuCaller(MaxSweepCycles)
    /\ last = NoOp
    /\ ppuSteps = 0

SpecSweep == InitSweep /\ [][NextCpu]_vars

\* C39: after reset, over any sequence of step() calls interleaved with
\* triggerNMI, triggerIRQ, clearIRQ and stallCycles, the total cycle
\* counter is 7 plus the sum of the values step() returned, and every
\* step() returns a value from 1 to 7.
C39_CycleCount ==
    /\ cpu.totalCycles = 7 + driver.returned
    /\ last.op = "step" => last.ret \in 1..7

\* A stall tick (1 cycle) and then an instruction of 7 cycles: the
\* counter is at 15.
C39_Witness ==
    /\ last.op = "step" /\ last.event = "instruction" /\ last.ret = 7
    /\ driver.returned = 8
    /\ cpu.totalCycles = 15

---------------------------------------------------------------------------
(* The PPU stepped from construction through its first frame and into the  *)
(* second, rendering switched on before the first dot or left off, over an *)
(* OAM that is all zero (eight sprites found on scanlines 0 to 7) or has   *)
(* every sprite hidden.  The registers are read and written with byte      *)
(* values while the PPU is at dot 256 of the pre-render line, before the   *)
(* scroll copies, the last fetches of the line and the wrap to the next    *)
(* frame.  driver.n counts the accesses.                                   *)

\* The dots of the run: up to dot 258 of scanline 0 of the second frame
MaxWidthDots == 89603

MaxWidthAccesses == 3

WidthWrites ==
    {<<\h2000, \h03>>, <<\h2003, \hFF>>, <<\h2004, \h01>>,
     <<\h2005, \hFF>>, <<\h2006, \hFF>>, <<\h2007, \h01>>}

WidthReads == {\h2002, \h2007}

InitWidths ==
    /\ \E layout \in {EmptyMap, HiddenOam} :
          Holds([PpuOver(Horizontal) EXCEPT !.ppu.oam = layout])
    /\ driver = [n |-> 0]
    /\ last = NoOp
    /\ ppuSteps = 0

WidthsAccess ==
    /\ ppu.scanline = 261 /\ ppu.cycle = 256
    /\ driver.n < MaxWidthAccesses

\* ppu.writeRegister(register, value)
WidthsWrite ==
    /\ WidthsAccess
    /\ \E write \in WidthWrites :
          Install(writeRegister(Machine, write[1], write[2]))
    /\ driver' = [n |-> driver.n + 1]
    /\ last' = Did("write", "none", 0, FALSE)
    /\ UNCHANGED ppuSteps

\* ppu.readRegister(register)
WidthsRead ==
    /\ WidthsAccess
    /\ \E register \in WidthReads :
          Install(readRegister(Machine, register).m)
    /\ driver' = [n |-> driver.n + 1]
    /\ last' = Did("read", "none", 0, FALSE)
    /\ UNCHANGED ppuSteps

\* ppu.step()
WidthsTick ==
    /\ ppuSteps < MaxWidthDots
    /\ Install(PpuStep(Machine, OamInput(Machine)))
    /\ last' = Did("tick", "none", 0, FALSE)
    /\ ppuSteps' = ppuSteps + 1
    /\ UNCHANGED driver

NextWidths ==
    \/ FramesWriteMask
    \/ WidthsWrite
    \/ WidthsRead
    \/ WidthsTick

SpecWidths == InitWidths /\ [][NextWidths]_vars

\* C40: in every state reached by steps and by register reads and writes
\* with byte values, scanline is in 0..261, the dot in 0..340, v and t in
\* 0..0x7FFF, fine X in 0..7, OAMADDR in 0..255 and the sprite count in
\* 0..8.
C40_Widths ==
    /\ ppu.scanline \in 0..261
    /\ ppu.cycle \in 0..340
    /\ ppu.v \in 0..\h7FFF
    /\ ppu.t \in 0..\h7FFF
    /\ ppu.x \in 0..7
    /\ ppu.oamAddr \in 0..255
    /\ ppu.spriteCount \in 0..MaxSprites

\* t was written to 0x7FFF and fine X to 7, the pre-render line has copied
\* t to v, and evaluateSprites has found eight sprites on scanline 0 of
\* the second frame.
C40_Witness ==
    /\ last.op = "tick"
    /\ ppu.scanline = 0 /\ ppu.cycle = 258
    /\ ppuSteps > 262 * 341
    /\ ppu.t = \h7FFF /\ ppu.x = 7
    /\ ppu.spriteCount = MaxSprites
    /\ BitAnd(ppu.v, \h7000) = 0

====
